---------------------------- MODULE Spec2Model ----------------------------
(***************************************************************************)
(* A model of the composite-widget coordination protocol of wulfe/ui:      *)
(* the focus-navigation utility, the BaseElement event queue, the          *)
(* Accordion / AccordionItem pair, the Tree / TreeItem pair, the Dialog    *)
(* stack and focus trap, the TabGroup and the Icon cache.  Each part has   *)
(* its own variables and its own specification; a specification leaves the *)
(* other parts' variables at their idle values.                            *)
(***************************************************************************)
EXTENDS Integers, Sequences, FiniteSets, TLC

VARIABLES
    \* ---- focus utility (utils/focus.ts): one call and its result
    fElements,      \* the list: fElements[i] = TRUE iff item i-1 has `disabled`
    fCurrentIndex,  \* currentIndex argument (0-based, -1 = no current item)
    fDirection,     \* "next" | "previous" | "first" | "last"
    fWrap,          \* wrap argument
    fCalled,        \* has findNextFocusable been called on these inputs
    fResult,        \* 0-based index of the returned item, Null for null
    \* ---- BaseElement event queue (core/base-element.ts), one element
    events,         \* #events: the queued events, oldest first (event ids)
    eventScheduled, \* #eventScheduled
    flushPending,   \* flush callbacks handed to queueMicrotask and not yet run
    evTurn,         \* number of the current synchronous turn
    evAddedTurn,    \* evAddedTurn[e]: the turn in which event e was added
    evCleared,      \* events dropped by clearEventQueue
    evFlushes,      \* the batches emitted so far, one per flush callback run
    evSchedInTurn,  \* flush callbacks scheduled during the current turn
    evFailed,       \* events for which emitEvent returned false because the
                    \* dispatch raised an exception
    evThrown,       \* an exception has left a flush callback
    \* ---- Accordion and its AccordionItems (accordion.ts, accordion-item.ts)
    accCollapsible, \* Accordion.collapsible
    accMultiple,    \* Accordion.multiple
    accItems,       \* #accordionItems in order; one record per AccordionItem
    accSlotDone,    \* the slot's first slotchange has been handled
    accError,       \* a handler of the accordion has thrown
    accLastOp,      \* the last task: what the slotchange found, or what the
                    \* last call of an item's public method was made on
    accFocus,       \* the item whose trigger button has the focus, 0 when
                    \* the focus is on no item of the accordion
    accPrevented,   \* a consumer's listener called preventDefault() on the
                    \* event that the last flush of this task dispatched
    \* ---- Tree and its TreeItems (tree.ts, tree-item.ts)
    treeParent,     \* treeParent[i]: the parent item of item i, 0 for a root
                    \* item; items are numbered in document order
    treeSelection,  \* Tree.selection: "none" | "single" | "multiple"
    treeStrategy,   \* Tree.strategy: "all" | "leaf"
    treeOnlyLeaf,   \* Tree.onlyLeafCheckboxes
    treeItems,      \* one record per TreeItem, in document order
    treeSlotDone,   \* Tree.isInitialized: the slotchange has been handled and
                    \* the MutationObserver observes the tree
    treeLastSelection, \* Tree.lastSelection (as a set of items)
    treeEvents,     \* length of the Tree's #events
    treeRecords,    \* the observer's record queue: the target of each record
    treeMicro,      \* the microtask queue, oldest first: i > 0 is the Lit
                    \* update of item i, 0 the observer's callback, Null the
                    \* flush of the Tree's event queue
    treeScriptOps,  \* attribute writes made by the script task that runs
    treeLog,        \* the user's and the script's operations so far
    \* ---- Dialogs and the open-dialog stack (dialog.ts)
    domParent,      \* the page: domParent[x] is the parent element of element
                    \* x, 0 for document.body; elements 1..MaxDialogs are the
                    \* dialogs
    dlgDismissable, \* Dialog.dismissable, per dialog
    dlgOpen,        \* Dialog.open, per dialog
    dlgInitialized, \* BaseElement.#isInitialized, per dialog
    dlgChanged,     \* `open` is in the pending update's changedProperties
    dlgTransitioning, \* Dialog.#isTransitioning, per dialog
    dlgPhase,       \* where the dialog's show / hide sequence stands
    dlgInertElements, \* Dialog.#inertElements, per dialog (a set)
    dlgLastFocused, \* Dialog.#lastFocusedElement, per dialog (Null for null)
    dlgEvents,      \* length of the dialog's #events, per dialog
    openDialogs,    \* the module's openDialogs array, bottom first
    inertAttr,      \* the elements carrying the `inert` attribute
    bodyOverflowHidden, \* document.body.style.overflow is 'hidden'
    activeElement,  \* the focused element (0 for the body)
    dlgMicro,       \* the microtask queue, oldest first
    dlgLog,         \* the operations made so far
    \* ---- TabGroup and its Tabs (tab-group.ts, tab.js)
    tabs,           \* one record per wui-tab, in document order
    tabSelectedTab, \* TabGroup.selectedTab: a tab, 0 for null
    tabActivation,  \* TabGroup.activation: "auto" | "manual"
    tabFocus,       \* the tab that has the focus, 0 when none has
    tabObserving,   \* firstUpdated has run: the MutationObserver observes
    tabRecords,     \* the observer's record queue: target and whether the
                    \* record's oldValue is null (the attribute was added)
    tabMicro,       \* the microtask queue, oldest first: i > 0 is the Lit
                    \* update of tab i, 0 the observer's callback, GroupUpdate
                    \* the group's first update
    tabScriptOps,   \* attribute writes made by the script task that runs
    \* ---- Tree (tree/tree.ts): keyboard navigation and roving tabindex
    navParent,      \* navParent[i]: the parent item of item i, 0 at top level
    navItems,       \* per item: disabled, expanded, collapsible, tabindex
    navTreeTabindex, \* the tabindex attribute of the tree container
    lastFocusedItem, \* Tree.lastFocusedItem, 0 for null
    navActive,      \* document.activeElement: an item, TreeEl for the tree
                    \* container, Null for an element outside the tree
    navFocused,     \* an item has received the focus
    navOverflow,    \* the focus listeners have exhausted the call stack
    navTick,        \* flips at every operation on the tree's focus
    \* ---- Dialog (dialog/dialog.ts): the focus trap
    trapElements,   \* #focusableElements: trapElements[i] = TRUE iff the
                    \* i-th tabbable element carries the attribute `disabled`
    trapFocus,      \* 0-based index of the focused element in that list,
                    \* Null for an element of the dialog that is not in it
    trapInside,     \* the focus is inside the dialog
    trapPrevented,  \* the last Tab press had preventDefault() called
    trapMoved,      \* the handler of the last Tab press called focus()
    trapPresses,    \* Tab presses handled so far
    \* ---- Icon (icon/icon.ts): the cache of loads
    iconCache,      \* iconCache: url -> index of the cached promise, 0
                    \* for no entry
    iconPromises,   \* the promises resolveIcon() returned, in creation
                    \* order: [url, state, waiters, awaited]
    iconAwait,      \* per Icon element: the promise its setIcon() awaits (0: none) and the url it asked for
    iconSvg,        \* per Icon element: this.svg, the url whose SVG is rendered (0: none)
    iconMicro,      \* continuations of setIcon() queued as microtasks, oldest first
    iconErrors,     \* per Icon element: an exception left setIcon()
    \* ---- Tree (tree/tree.ts): level, posinset and setsize of the items
    hierChildren,   \* hierChildren[p]: the child items of node p in document
                    \* order, p = 0 being the tree itself; an item in no list
                    \* is not in the document
    hierItems,      \* per item: level, posinset, setsize (0 for null)
    hierMicro,      \* the microtask queue: 0 is the slotchange event of the
                    \* tree's slot
    \* ---- Accordion (accordion/accordion.ts): an accordion nested in another
    nestParent,     \* nestParent[n]: the parent element of element n, 0 for
                    \* the enclosing accordion (element 1)
    nestTag,        \* nestTag[n]: "accordion", "item" or "div"
    nestConfig,     \* per accordion: its collapsible and multiple properties
    nestItems,      \* per item: the AccordionItem record
    nestSlotDone,   \* the accordions whose slotchange has been handled
    nestFocus,      \* the item whose trigger has the focus, 0 for none
    nestOrigin,     \* the element the last event came from: the item of a
                    \* notification or key press, the accordion of a slot
                    \* change or property change
    \* ---- Icon (icon/icon.ts): one icon whose source changes
    srcUrl,         \* the url the icon's name / src resolve to, 0 for none
    srcCache,       \* iconCache as the one icon sees it: url -> promise, or 0
    srcPromises,    \* the promises of resolveIcon, in creation order
    srcCalls,       \* the calls of setIcon(): url, promise awaited, done
    srcSvg,         \* the url whose SVG the icon renders, 0 for none
    srcMicro        \* microtasks: the icon's update, continuations of calls

focusVars == <<fElements, fCurrentIndex, fDirection, fWrap, fCalled, fResult>>
eventVars == <<events, eventScheduled, flushPending, evTurn, evAddedTurn,
               evCleared, evFlushes, evSchedInTurn, evFailed, evThrown>>

accVars == <<accCollapsible, accMultiple, accItems, accSlotDone, accError,
             accLastOp, accFocus, accPrevented>>

treeVars == <<treeParent, treeSelection, treeStrategy, treeOnlyLeaf, treeItems,
              treeSlotDone, treeLastSelection, treeEvents, treeRecords,
              treeMicro, treeScriptOps, treeLog>>

dlgVars == <<domParent, dlgDismissable, dlgOpen, dlgInitialized, dlgChanged,
             dlgTransitioning, dlgPhase, dlgInertElements, dlgLastFocused,
             dlgEvents, openDialogs, inertAttr, bodyOverflowHidden,
             activeElement, dlgMicro, dlgLog>>

tabVars == <<tabs, tabSelectedTab, tabActivation, tabFocus, tabObserving,
             tabRecords, tabMicro, tabScriptOps>>

navVars == <<navParent, navItems, navTreeTabindex, lastFocusedItem,
             navActive, navFocused, navOverflow, navTick>>

trapVars == <<trapElements, trapFocus, trapInside, trapPrevented,
              trapMoved, trapPresses>>

iconVars == <<iconCache, iconPromises, iconAwait, iconSvg, iconMicro,
              iconErrors>>

hierVars == <<hierChildren, hierItems, hierMicro>>

nestVars == <<nestParent, nestTag, nestConfig, nestItems, nestSlotDone,
              nestFocus, nestOrigin>>

srcVars == <<srcUrl, srcCache, srcPromises, srcCalls, srcSvg, srcMicro>>

vars == <<focusVars, eventVars, accVars, treeVars, dlgVars, tabVars, navVars, trapVars, iconVars, hierVars, nestVars, srcVars>>

\* what the actions of one part leave unchanged: the other parts
exceptFocus == <<eventVars, accVars, treeVars, dlgVars, tabVars, navVars, trapVars, iconVars, hierVars, nestVars, srcVars>>
exceptEvents == <<focusVars, accVars, treeVars, dlgVars, tabVars, navVars, trapVars, iconVars, hierVars, nestVars, srcVars>>
exceptAcc == <<focusVars, eventVars, treeVars, dlgVars, tabVars, navVars, trapVars, iconVars, hierVars, nestVars, srcVars>>
exceptTree == <<focusVars, eventVars, accVars, dlgVars, tabVars, navVars, trapVars, iconVars, hierVars, nestVars, srcVars>>
exceptDlg == <<focusVars, eventVars, accVars, treeVars, tabVars, navVars, trapVars, iconVars, hierVars, nestVars, srcVars>>
exceptTab == <<focusVars, eventVars, accVars, treeVars, dlgVars, navVars, trapVars, iconVars, hierVars, nestVars, srcVars>>
exceptNav == <<focusVars, eventVars, accVars, treeVars, dlgVars, tabVars, trapVars, iconVars, hierVars, nestVars, srcVars>>
exceptTrap == <<focusVars, eventVars, accVars, treeVars, dlgVars, tabVars, navVars, iconVars, hierVars, nestVars, srcVars>>
exceptIcon == <<focusVars, eventVars, accVars, treeVars, dlgVars, tabVars, navVars, trapVars, hierVars, nestVars, srcVars>>
exceptHier == <<focusVars, eventVars, accVars, treeVars, dlgVars, tabVars, navVars, trapVars, iconVars, nestVars, srcVars>>
exceptNest == <<focusVars, eventVars, accVars, treeVars, dlgVars, tabVars, navVars, trapVars, iconVars, hierVars, srcVars>>
exceptSrc == <<focusVars, eventVars, accVars, treeVars, dlgVars, tabVars, navVars, trapVars, iconVars, hierVars, nestVars>>

-----------------------------------------------------------------------------
(* Bounds of the model *)

MaxLen == 4          \* longest list handed to findNextFocusable
MaxEvents == 3       \* events ever added to the one element's queue
MaxTurns == 3        \* macrotask turns started by the environment
MaxListenerAdds == 1 \* events a listener adds while a flush dispatches
MaxItems == 3        \* most AccordionItems slotted into the accordion
MaxItemEvents == 1   \* events waiting in one AccordionItem's queue
MaxTreeItems == 3    \* most TreeItems in the tree
MaxDisabled == 1     \* most TreeItems carrying `disabled`
MaxScriptOps == 2    \* attribute writes one script task makes
MaxTreeLog == 2      \* operations the log of a scenario holds
MaxDialogs == 2      \* dialogs on the page
MaxDlgLog == 3       \* operations the log of a dialog scenario holds
MaxTabs == 3         \* tabs of the tab group
MaxStackDepth == 2    \* entries of openDialogs beyond which no dialog is opened
MaxNavItems == 3      \* items of the tree whose focus is modelled
MaxCallDepth == 4     \* nested focus() calls the call stack holds
MaxFocusable == 3     \* tabbable elements in the dialog
MaxTabPresses == 3    \* Tab presses on the dialog
MaxIcons == 2         \* Icon elements on the page
MaxUrls == 2          \* icon urls
MaxLoads == 3         \* calls of resolveIcon
MaxHierItems == 3     \* tree items whose hierarchy is modelled
MaxSetIcons == 3      \* calls of setIcon() on the one icon whose source changes

-----------------------------------------------------------------------------
(* Shared helpers *)

Null == 0 - 1        \* the index standing for a `null` result

Min(S) == CHOOSE x \in S : \A y \in S : x <= y
Max(S) == CHOOSE x \in S : \A y \in S : x >= y

BoolSeqs(n) == UNION {[1..k -> BOOLEAN] : k \in 0..n}

Range(q) == {q[i] : i \in 1..Len(q)}

RECURSIVE SortedSeq(_)
SortedSeq(S) ==
    IF S = {} THEN <<>>
    ELSE LET m == Min(S) IN <<m>> \o SortedSeq(S \ {m})

-----------------------------------------------------------------------------
(* utils/focus.ts : findNextFocusable (wrap-aware version)                  *)

\* elements.find(el => !el.hasAttribute('disabled')) ?? null
FirstEnabled(elements) ==
    LET S == {i \in 1..Len(elements) : ~elements[i]}
    IN  IF S = {} THEN Null ELSE Min(S) - 1

\* [...elements].reverse().find(el => !el.hasAttribute('disabled')) ?? null
LastEnabled(elements) ==
    LET S == {i \in 1..Len(elements) : ~elements[i]}
    IN  IF S = {} THEN Null ELSE Max(S) - 1

\* the while loop: walk from nextIndex in steps of iterator while in range
RECURSIVE ScanFrom(_, _, _)
ScanFrom(elements, nextIndex, iterator) ==
    IF nextIndex >= 0 /\ nextIndex < Len(elements)
    THEN IF ~elements[nextIndex + 1]
         THEN nextIndex
         ELSE ScanFrom(elements, nextIndex + iterator, iterator)
    ELSE Null

\* mutant: the wrap flag is ignored and the search never wraps
findNextFocusableNoWrap(elements, currentIndex, direction, wrap) ==
    IF Len(elements) = 0 THEN Null
    ELSE IF direction = "first" THEN FirstEnabled(elements)
    ELSE IF direction = "last" THEN LastEnabled(elements)
    ELSE ScanFrom(elements,
                  currentIndex + (IF direction = "next" THEN 1 ELSE 0 - 1),
                  IF direction = "next" THEN 1 ELSE 0 - 1)

\* mutant: the scan does not test the disabled attribute
findNextFocusableAnyItem(elements, currentIndex, direction, wrap) ==
    IF Len(elements) = 0 THEN Null
    ELSE IF direction = "first" THEN FirstEnabled(elements)
    ELSE IF direction = "last" THEN LastEnabled(elements)
    ELSE LET iterator  == IF direction = "next" THEN 1 ELSE 0 - 1
             nextIndex == currentIndex + iterator
         IN  IF nextIndex >= 0 /\ nextIndex < Len(elements) THEN nextIndex
             ELSE IF ~wrap THEN Null
             ELSE IF direction = "next" THEN FirstEnabled(elements)
             ELSE LastEnabled(elements)

findNextFocusable(elements, currentIndex, direction, wrap) ==
    IF Len(elements) = 0 THEN Null
    ELSE IF direction = "first" THEN FirstEnabled(elements)
    ELSE IF direction = "last" THEN LastEnabled(elements)
    ELSE LET iterator == IF direction = "next" THEN 1 ELSE 0 - 1
             found    == ScanFrom(elements, currentIndex + iterator, iterator)
         IN  IF found # Null THEN found
             ELSE IF ~wrap THEN Null
             ELSE IF direction = "next" THEN FirstEnabled(elements)
             ELSE LastEnabled(elements)

Directions == {"next", "previous", "first", "last"}

FocusInit ==
    /\ fElements \in BoolSeqs(MaxLen)
    /\ fCurrentIndex \in (0 - 1)..(Len(fElements) - 1)
    /\ fDirection \in Directions
    /\ fWrap \in BOOLEAN
    /\ fCalled = FALSE
    /\ fResult = Null

FocusIdle ==
    /\ fElements = <<>>
    /\ fCurrentIndex = Null
    /\ fDirection = "next"
    /\ fWrap = TRUE
    /\ fCalled = FALSE
    /\ fResult = Null

\* one call of findNextFocusable on the drawn inputs
FocusCall ==
    /\ ~fCalled
    /\ fCalled' = TRUE
    /\ fResult' = findNextFocusable(fElements, fCurrentIndex, fDirection, fWrap)
    /\ UNCHANGED <<fElements, fCurrentIndex, fDirection, fWrap>>
    /\ UNCHANGED exceptFocus

FocusNext == FocusCall

-----------------------------------------------------------------------------
(* Claims about findNextFocusable *)

AllDisabled(elements) == \A i \in 1..Len(elements) : elements[i]

\* an enabled item lies strictly beyond currentIndex in the scan direction
EnabledBeyond(elements, currentIndex, direction) ==
    \E i \in 1..Len(elements) :
        /\ ~elements[i]
        /\ IF direction = "next" THEN i - 1 > currentIndex ELSE i - 1 < currentIndex

\* C6 (as stated): findNextFocusable never returns a disabled item, and it
\* returns null only when the list is empty or every item is disabled, for
\* every direction and both wrap values.
C6_Original ==
    fCalled =>
        /\ (fResult # Null => ~fElements[fResult + 1])
        /\ (fResult = Null => AllDisabled(fElements))

\* C6 (amended): findNextFocusable never returns a disabled item; it returns
\* null exactly when the list is empty or fully disabled, or when wrap = false,
\* the direction is next/previous and no enabled item lies beyond currentIndex
\* in that direction.
C6_NeverDisabled ==
    fCalled =>
        /\ (fResult # Null =>
                /\ fResult \in 0..(Len(fElements) - 1)
                /\ ~fElements[fResult + 1])
        /\ (fResult = Null <=>
                \/ AllDisabled(fElements)
                \/ /\ ~fWrap
                   /\ fDirection \in {"next", "previous"}
                   /\ ~EnabledBeyond(fElements, fCurrentIndex, fDirection))

\* C6 witness: a non-wrapping call past the last enabled item returned null
\* although the list holds an enabled item.
C6_Witness ==
    /\ fCalled
    /\ ~fWrap
    /\ fDirection = "next"
    /\ ~AllDisabled(fElements)
    /\ fResult = Null

\* the list in which every item except the one at index 2 is disabled
OnlyIndex2Enabled(elements) ==
    /\ Len(elements) >= 3
    /\ \A i \in 1..Len(elements) : elements[i] <=> (i # 3)

\* C7: with only index 2 enabled, direction next and wrap = true return index 2
\* from every start index; with wrap = false the call returns null whenever no
\* enabled item lies after the start index.
C7_OnlyIndex2 ==
    (fCalled /\ fDirection = "next" /\ OnlyIndex2Enabled(fElements)) =>
        /\ (fWrap => fResult = 2)
        /\ ((~fWrap /\ fCurrentIndex >= 2) => fResult = Null)
        /\ ((~fWrap /\ fCurrentIndex < 2) => fResult = 2)

\* C7 witness: the wrapping call started past index 2 and came back to it.
C7_Witness ==
    /\ fCalled
    /\ fDirection = "next"
    /\ fWrap
    /\ OnlyIndex2Enabled(fElements)
    /\ fCurrentIndex = 3
    /\ fResult = 2

-----------------------------------------------------------------------------
(* core/base-element.ts : the event queue of one element                   *)

EventInit ==
    /\ events = <<>>
    /\ eventScheduled = FALSE
    /\ flushPending = 0
    /\ evTurn = 1
    /\ evAddedTurn = <<>>
    /\ evCleared = {}
    /\ evFlushes = <<>>
    /\ evSchedInTurn = 0
    /\ evFailed = {}
    /\ evThrown = FALSE

EventIdle == EventInit

\* addEvent: this.#events.push(event); the new event's id is its add order
AddEvent ==
    /\ Len(evAddedTurn) < MaxEvents
    /\ events' = Append(events, Len(evAddedTurn) + 1)
    /\ evAddedTurn' = Append(evAddedTurn, evTurn)
    /\ UNCHANGED <<eventScheduled, flushPending, evTurn, evCleared, evFlushes,
                   evSchedInTurn, evFailed, evThrown>>
    /\ UNCHANGED exceptEvents

\* mutant: queueEvents without the #eventScheduled guard
QueueEventsUnguarded ==
    /\ Len(events) > 0
    /\ eventScheduled' = TRUE
    /\ flushPending' = flushPending + 1
    /\ evSchedInTurn' = evSchedInTurn + 1
    /\ UNCHANGED <<events, evTurn, evAddedTurn, evCleared, evFlushes, evFailed,
                   evThrown>>
    /\ UNCHANGED exceptEvents

\* queueEvents: returns when the queue is empty or a flush is scheduled, else
\* sets the flag and hands the flush callback to queueMicrotask
QueueEvents ==
    /\ Len(events) > 0
    /\ ~eventScheduled
    /\ eventScheduled' = TRUE
    /\ flushPending' = flushPending + 1
    /\ evSchedInTurn' = evSchedInTurn + 1
    /\ UNCHANGED <<events, evTurn, evAddedTurn, evCleared, evFlushes, evFailed,
                   evThrown>>
    /\ UNCHANGED exceptEvents

\* mutant: emitEvent without the try / catch
emitEventUncaught(event, raising) ==
    [returned |-> event \notin raising, thrown |-> event \in raising]

\* emitEvent of one queued event; the dispatch of the events in `raising`
\* raises an exception, which the catch block turns into the result false
emitEvent(event, raising) ==
    [returned |-> event \notin raising, thrown |-> FALSE]

\* this.#events.forEach(event => this.emitEvent(event)) from position k on:
\* the events emitEvent was called with, those it returned false for, and
\* whether an exception ended the loop
RECURSIVE EmitEach(_, _, _)
EmitEach(queue, k, raising) ==
    IF k > Len(queue)
    THEN [called |-> <<>>, failed |-> {}, thrown |-> FALSE]
    ELSE LET res == emitEvent(queue[k], raising)
         IN  IF res.thrown
             THEN [called |-> <<queue[k]>>, failed |-> {}, thrown |-> TRUE]
             ELSE LET rest == EmitEach(queue, k + 1, raising)
                  IN  [called |-> <<queue[k]>> \o rest.called,
                       failed |-> (IF res.returned THEN {} ELSE {queue[k]})
                                     \cup rest.failed,
                       thrown |-> rest.thrown]

\* the flush callback, run as a microtask (a turn of its own): forEach emits
\* the events that are queued when it starts; an event a listener pushes
\* during the dispatch lies past forEach's range; then the queue is replaced
\* by [] and the flag reset.  The listener's own queueEvents call returns at
\* the guard (the flag is still set).  An exception that leaves forEach ends
\* the callback before the queue is replaced.
FlushEvents(listenerAdds, raising) ==
    /\ flushPending > 0
    /\ Len(evAddedTurn) + listenerAdds <= MaxEvents
    /\ (listenerAdds > 0 => Len(events) > 0)
    /\ raising \subseteq Range(events)
    /\ LET res == EmitEach(events, 1, raising)
       IN  /\ evFlushes' = Append(evFlushes, res.called)
           /\ evFailed' = evFailed \cup res.failed
           /\ evThrown' = (evThrown \/ res.thrown)
           /\ events' = IF res.thrown THEN events ELSE <<>>
           /\ eventScheduled' = IF res.thrown THEN eventScheduled ELSE FALSE
    /\ evAddedTurn' = evAddedTurn \o [i \in 1..listenerAdds |-> evTurn + 1]
    /\ flushPending' = flushPending - 1
    /\ evTurn' = evTurn + 2
    /\ evSchedInTurn' = 0
    /\ UNCHANGED <<evCleared>>
    /\ UNCHANGED exceptEvents

\* clearEventQueue (also run by disconnectedCallback)
ClearEventQueue ==
    /\ events # <<>> \/ eventScheduled
    /\ evCleared' = evCleared \cup Range(events)
    /\ events' = <<>>
    /\ eventScheduled' = FALSE
    /\ UNCHANGED <<flushPending, evTurn, evAddedTurn, evFlushes, evSchedInTurn,
                   evFailed, evThrown>>
    /\ UNCHANGED exceptEvents

\* the environment starts a new task; the microtask queue has been drained
NewTurn ==
    /\ flushPending = 0
    /\ evTurn < 2 * MaxTurns + MaxEvents
    /\ evTurn' = evTurn + 1
    /\ evSchedInTurn' = 0
    /\ UNCHANGED <<events, eventScheduled, flushPending, evAddedTurn, evCleared,
                   evFlushes, evFailed, evThrown>>
    /\ UNCHANGED exceptEvents

\* the events added so far, by id
AllEvents == 1..Len(evAddedTurn)

EventNext ==
    \/ AddEvent
    \/ QueueEvents
    \/ \E n \in 0..MaxListenerAdds : \E raising \in SUBSET AllEvents :
          FlushEvents(n, raising)
    \/ ClearEventQueue
    \/ NewTurn

-----------------------------------------------------------------------------
(* Claims about the event queue *)

\* the flushes (by number) that emitted event e
EmittedIn(e) == {k \in 1..Len(evFlushes) : e \in Range(evFlushes[k])}

\* the position of event e in flush k
PosIn(k, e) == CHOOSE i \in 1..Len(evFlushes[k]) : evFlushes[k][i] = e

\* C5: all events added to one element during the same synchronous turn are
\* emitted together in one microtask flush, in the order they were added, and
\* however often queueEvents is called in a turn at most one flush is
\* scheduled for the element.
C5_Original ==
    /\ evSchedInTurn <= 1
    /\ \A a, b \in AllEvents \ evCleared :
          (evAddedTurn[a] = evAddedTurn[b] /\ a < b /\ EmittedIn(a) # {}) =>
              /\ EmittedIn(b) = EmittedIn(a)
              /\ \A k \in EmittedIn(a) : PosIn(k, a) < PosIn(k, b)
    /\ (flushPending = 0 /\ events = <<>>) =>
          \A e \in AllEvents \ evCleared : EmittedIn(e) # {}

\* C18: when the dispatch of a queued event raises an exception, emitEvent
\* returns false and nothing propagates: the flush callback still calls
\* emitEvent for every event that was queued when it started, empties the
\* queue and resets the flag.
C18_FlushCompletes ==
    [][\A n \in 0..MaxListenerAdds : \A raising \in SUBSET AllEvents :
          (FlushEvents(n, raising) /\ raising # {}) =>
              /\ evFlushes' = Append(evFlushes, events)
              /\ raising \subseteq evFailed'
              /\ events' = <<>>
              /\ ~eventScheduled'
              /\ ~evThrown']_vars

\* a flush has emitted an event after one whose dispatch raised, and has left
\* the queue empty and the flag reset
C18_Witness ==
    /\ events = <<>>
    /\ ~eventScheduled
    /\ \E k \in 1..Len(evFlushes) : \E i, j \in 1..Len(evFlushes[k]) :
          /\ i < j
          /\ evFlushes[k][i] \in evFailed
          /\ evFlushes[k][j] \notin evFailed

\* C34: once no flush is pending and the queue is empty, every event that was
\* added and not removed by clearEventQueue has been emitted exactly once,
\* an event a listener added during a flush included.
C34_Original ==
    (flushPending = 0 /\ events = <<>>)
    => \A e \in AllEvents \ evCleared : Cardinality(EmittedIn(e)) = 1

-----------------------------------------------------------------------------
(* accordion-item.ts : AccordionItem, and the Lit update cycle it runs in   *)

\* One AccordionItem:
\*   expanded, disabled  the reflected properties (attributes `open`, `disabled`)
\*   open                the `open` attribute; it follows `expanded` when the
\*                       item's update runs (reflect: true)
\*   _collapsible        the @state field the accordion writes
\*   initialized         BaseElement.#isInitialized: the first update has run
\*   changed             the pending update's changedProperties: "none" (no
\*                       update pending), "state" (only _collapsible changed),
\*                       "notify" (expanded or disabled changed)
\*   queued              length of the item's #events
\*   scheduled           the item's #eventScheduled (a flush is queued)
\* The `disabled` attribute is read only between tasks, when it equals the
\* property.
NewItem(isOpen, isDisabled) ==
    [expanded |-> isOpen, open |-> isOpen, disabled |-> isDisabled,
     _collapsible |-> TRUE, initialized |-> FALSE, changed |-> "none",
     queued |-> 0, scheduled |-> FALSE]

\* get collapsible(): this._collapsible && !this.disabled
collapsible(item) == item._collapsible /\ ~item.disabled

\* Assignment to a reactive property: Lit requests an update only when the
\* value differs; the property then is in the update's changedProperties.
SetExpanded(item, v) ==
    IF item.expanded = v THEN item
    ELSE [item EXCEPT !.expanded = v, !.changed = "notify"]

SetDisabled(item, v) ==
    IF item.disabled = v THEN item
    ELSE [item EXCEPT !.disabled = v, !.changed = "notify"]

SetCollapsible(item, v) ==
    IF item._collapsible = v THEN item
    ELSE [item EXCEPT !._collapsible = v,
                      !.changed = IF @ = "notify" THEN "notify" ELSE "state"]

\* mutant: toggle() without the collapsible guard
toggleUnguarded(item) == SetExpanded(item, ~item.expanded)

\* toggle()
toggle(item) ==
    IF ~collapsible(item) THEN item
    ELSE SetExpanded(item, ~item.expanded)

\* mutant: open() implemented as toggle()
openAsToggle(item) == toggle(item)

\* open()
open(item) ==
    IF ~collapsible(item) THEN item
    ELSE IF item.expanded THEN item
    ELSE SetExpanded(item, TRUE)

\* close()
close(item) ==
    IF ~collapsible(item) THEN item
    ELSE IF ~item.expanded THEN item
    ELSE SetExpanded(item, FALSE)

\* disable()
disable(item) == IF item.disabled THEN item ELSE SetDisabled(item, TRUE)

\* enable()
enable(item) == IF ~item.disabled THEN item ELSE SetDisabled(item, FALSE)

ItemOps == {"toggle", "open", "close", "disable", "enable", "click"}

\* #handleClick (the trigger button's click; a disabled button gets none)
ApplyOp(op, item) ==
    CASE op = "toggle"  -> toggle(item)
      [] op = "open"    -> open(item)
      [] op = "close"   -> close(item)
      [] op = "disable" -> disable(item)
      [] op = "enable"  -> enable(item)
      [] op = "click"   -> toggle(item)

AccIndices == 1..Len(accItems)

\* no microtask is pending: the slotchange has been handled, every item has
\* run its first update, no update is requested and no flush is scheduled
AccQuiescent ==
    /\ accSlotDone
    /\ \A i \in AccIndices :
          /\ accItems[i].initialized
          /\ accItems[i].changed = "none"
          /\ ~accItems[i].scheduled

\* what the call was made on: an already expanded item (open), an already
\* disabled item (disable), an expanded item that is not collapsible (toggle,
\* close), or anything else
CallKind(op, item) ==
    IF op = "open" /\ item.expanded THEN "openOnExpanded"
    ELSE IF op = "disable" /\ item.disabled THEN "disableOnDisabled"
    ELSE IF op \in {"toggle", "close"} /\ item.expanded
            /\ ~(item._collapsible /\ ~item.disabled)
         THEN "closeOnFixed"
    ELSE "other"

\* A call of one of item i's public methods, or a click on its trigger.  It
\* runs in a task of its own: the microtasks of the first render and of the
\* task before it (slotchange, updates, flushes) have all run.
ItemCall(i, op) ==
    /\ AccQuiescent
    /\ op = "click" => ~accItems[i].disabled
    /\ accItems' = [accItems EXCEPT ![i] = ApplyOp(op, accItems[i])]
    /\ accLastOp' = CallKind(op, accItems[i])
    /\ accPrevented' = FALSE
    /\ UNCHANGED <<accCollapsible, accMultiple, accSlotDone, accError, accFocus>>
    /\ UNCHANGED exceptAcc

\* handleUpdated of an initialized item: add the change event when expanded
\* or disabled changed, then queueEvents()
handleUpdated(item) ==
    LET q == IF item.changed = "notify" THEN item.queued + 1 ELSE item.queued
    IN  [item EXCEPT !.queued = q,
                     !.scheduled = IF q > 0 THEN TRUE ELSE @]

\* The item's Lit update (a microtask): the first one, or one a property
\* change requested.  It reflects `expanded` to the `open` attribute, renders
\* the trigger button (?disabled: a button that becomes disabled loses the
\* focus) and runs BaseElement.updated: the first update only sets
\* #isInitialized, later ones run handleUpdated.
ItemUpdate(i) ==
    /\ ~accItems[i].initialized \/ accItems[i].changed # "none"
    /\ accItems[i].changed = "notify" /\ accItems[i].initialized
            => accItems[i].queued < MaxItemEvents
    /\ accItems' = [accItems EXCEPT ![i] =
          LET reflected == [accItems[i] EXCEPT !.open = accItems[i].expanded]
          IN  IF ~reflected.initialized
              THEN [reflected EXCEPT !.initialized = TRUE, !.changed = "none"]
              ELSE [handleUpdated(reflected) EXCEPT !.changed = "none"]]
    /\ accFocus' = IF accFocus = i /\ accItems[i].disabled THEN 0 ELSE accFocus
    /\ UNCHANGED <<accCollapsible, accMultiple, accSlotDone, accError, accLastOp,
                   accPrevented>>
    /\ UNCHANGED exceptAcc

-----------------------------------------------------------------------------
(* accordion.ts : Accordion                                                 *)

\* utils/event.ts emitEvent: the DOM event type of an event named `name`
WuiPrefix == "wui"
EventType(name) == WuiPrefix \o "-" \o name

\* the name of the event an AccordionItem adds in handleUpdated
ItemEventName == "change"

\* the event type the accordion's slot listens to for #onChange
\* (render: @wui-show="${this.#onChange}")
AccordionListensTo == "wui-show"

\* the items that carry the `open` attribute, in item order
OpenAttrItems(its) == {i \in 1..Len(its) : its[i].open}

\* mutant: the default derivation marks no item non-collapsible
handleDefaultExpandedItemsKeepCollapsible(its, isCollapsible, isMultiple) ==
    IF isMultiple \/ isCollapsible \/ Len(its) = 0
    THEN [items |-> [i \in 1..Len(its) |-> SetCollapsible(its[i], TRUE)],
          error |-> FALSE]
    ELSE [items |-> [i \in 1..Len(its) |->
                        IF i = 1 /\ OpenAttrItems(its) = {}
                        THEN SetExpanded(its[i], TRUE) ELSE its[i]],
          error |-> FALSE]

\* mutant: the default derivation closes no item
handleDefaultExpandedItemsClosingNone(its, isCollapsible, isMultiple) ==
    [items |-> [i \in 1..Len(its) |->
                   IF isMultiple \/ isCollapsible
                   THEN SetCollapsible(its[i], TRUE)
                   ELSE IF OpenAttrItems(its) # {} /\ i = Min(OpenAttrItems(its))
                        THEN SetCollapsible(its[i], FALSE) ELSE its[i]],
     error |-> FALSE]

\* #handleDefaultExpandedItems: the items afterwards, and whether it threw
\* (this.#accordionItems[0] is undefined when there is no item)
handleDefaultExpandedItems(its, isCollapsible, isMultiple) ==
    IF isMultiple
    THEN [items |-> [i \in 1..Len(its) |-> SetCollapsible(its[i], TRUE)],
          error |-> FALSE]
    ELSE LET its1  == IF isCollapsible
                      THEN [i \in 1..Len(its) |-> SetCollapsible(its[i], TRUE)]
                      ELSE its
             opened == OpenAttrItems(its1)
         IN  IF opened # {}
             THEN [items |-> [i \in 1..Len(its1) |->
                        IF i = Min(opened)
                        THEN IF ~isCollapsible
                             THEN SetCollapsible(its1[i], FALSE) ELSE its1[i]
                        ELSE IF i \in opened
                             THEN SetExpanded(its1[i], FALSE) ELSE its1[i]],
                   error |-> FALSE]
             ELSE IF isCollapsible
                  THEN [items |-> its1, error |-> FALSE]
                  ELSE IF Len(its1) = 0
                       THEN [items |-> its1, error |-> TRUE]
                       ELSE [items |-> [its1 EXCEPT ![1] =
                                SetCollapsible(SetExpanded(@, TRUE), FALSE)],
                             error |-> FALSE]

\* #onChange for an event whose target is item `target` (an item of this
\* accordion, namespace accordion-item)
onChange(its, target, isCollapsible, isMultiple, defaultPrevented) ==
    IF isMultiple \/ defaultPrevented THEN its
    ELSE [i \in 1..Len(its) |->
            LET shouldBeOpen == (i = target)
                it1 == SetExpanded(its[i], shouldBeOpen)
            IN  IF ~isCollapsible THEN SetCollapsible(it1, ~shouldBeOpen)
                ELSE it1]

\* the `cancelable` option of the item's event: handleUpdated passes no
\* options to addEvent, and emitEvent's default is cancelable: false
ItemEventCancelable == FALSE

\* event.defaultPrevented after the listeners that ran before the
\* accordion's: preventDefault() takes effect on a cancelable event only
DefaultPrevented(cancelable, prevented) == cancelable /\ prevented

\* mutant: the item's event is named as the accordion's listener expects
DispatchToAccordionMatching(its, target, name, prevented) ==
    onChange(its, target, accCollapsible, accMultiple,
             DefaultPrevented(ItemEventCancelable, prevented))

\* dispatchEvent of one event of item `target`: the event bubbles to the
\* accordion's slot, whose listener runs #onChange only for its own event
\* type; `prevented` says whether a consumer's listener has called
\* preventDefault() on it by then.
DispatchToAccordion(its, target, name, prevented) ==
    IF EventType(name) = AccordionListensTo
    THEN onChange(its, target, accCollapsible, accMultiple,
                  DefaultPrevented(ItemEventCancelable, prevented))
    ELSE its

\* what the slotchange found: no item open (attribute or property), or some
SlotKind(its) ==
    IF \A i \in 1..Len(its) : ~its[i].open /\ ~its[i].expanded
    THEN "deriveNoneOpen" ELSE "deriveSomeOpen"

\* the slot's slotchange event: #handleSlotChange
HandleSlotChange ==
    /\ ~accSlotDone
    /\ ~accError
    /\ LET res == handleDefaultExpandedItems(accItems, accCollapsible, accMultiple)
       IN  /\ accItems' = res.items
           /\ accError' = res.error
    /\ accSlotDone' = TRUE
    /\ accLastOp' = SlotKind(accItems)
    /\ UNCHANGED <<accCollapsible, accMultiple, accFocus, accPrevented>>
    /\ UNCHANGED exceptAcc

\* the flush microtask of item i's queue, with or without a consumer's
\* listener that calls preventDefault(): every queued event is dispatched
\* (they are all `change` events; #onChange is idempotent per target), then
\* the queue is emptied and the flag reset
ItemFlush(i, prevented) ==
    /\ accItems[i].scheduled
    /\ accItems[i].queued = 0 => ~prevented
    /\ LET after == IF accItems[i].queued > 0
                    THEN DispatchToAccordion(accItems, i, ItemEventName,
                                             prevented)
                    ELSE accItems
       IN  accItems' = [after EXCEPT ![i] = [after[i] EXCEPT !.queued = 0,
                                                            !.scheduled = FALSE]]
    /\ accPrevented' = prevented
    /\ UNCHANGED <<accCollapsible, accMultiple, accSlotDone, accError, accLastOp,
                   accFocus>>
    /\ UNCHANGED exceptAcc

\* Accordion.handleUpdated, run by the accordion's update after a write to
\* `collapsible` and/or `multiple` (one task sets the pair to c, m): the
\* default derivation runs again on the items as they are.
AccSetConfig(c, m) ==
    /\ AccQuiescent
    /\ <<c, m>> # <<accCollapsible, accMultiple>>
    /\ accCollapsible' = c
    /\ accMultiple' = m
    /\ LET res == handleDefaultExpandedItems(accItems, c, m)
       IN  /\ accItems' = res.items
           /\ accError' = (accError \/ res.error)
    /\ accLastOp' = "config"
    /\ accPrevented' = FALSE
    /\ UNCHANGED <<accSlotDone, accFocus>>
    /\ UNCHANGED exceptAcc

\* the user moves the focus to the trigger of item i (Tab or pointer); a
\* disabled button takes no focus
AccFocusTrigger(i) ==
    /\ AccQuiescent
    /\ ~accItems[i].disabled
    /\ accFocus # i
    /\ accFocus' = i
    /\ accLastOp' = "focus"
    /\ accPrevented' = FALSE
    /\ UNCHANGED <<accCollapsible, accMultiple, accItems, accSlotDone, accError>>
    /\ UNCHANGED exceptAcc

NavKeys == {"ArrowUp", "ArrowDown", "Home", "End"}

KeyDirection(key) ==
    CASE key = "Home"      -> "first"
      [] key = "End"       -> "last"
      [] key = "ArrowUp"   -> "previous"
      [] key = "ArrowDown" -> "next"

\* the `disabled` attributes of the items, as findNextFocusable reads them
DisabledAttrs(its) == [i \in 1..Len(its) |-> its[i].disabled]

\* #handleKeyDown: the item that has the focus after a navigation key was
\* pressed while item `focused` had it (0: the key event came from an
\* element that is no item, and the handler returns)
handleKeyDown(its, focused, key) ==
    IF focused = 0 THEN focused
    ELSE LET nextItem == findNextFocusable(DisabledAttrs(its), focused - 1,
                                           KeyDirection(key), TRUE)
         IN  IF nextItem = Null THEN focused ELSE nextItem + 1

\* a navigation key pressed inside the accordion
AccKeyDown(key) ==
    /\ AccQuiescent
    /\ accFocus' = handleKeyDown(accItems, accFocus, key)
    /\ accLastOp' = "keydown"
    /\ accPrevented' = FALSE
    /\ UNCHANGED <<accCollapsible, accMultiple, accItems, accSlotDone, accError>>
    /\ UNCHANGED exceptAcc

NoOp == "none"

\* the page as parsed: the accordion's two attributes, and up to MaxItems
\* items each with or without `open` and `disabled`
AccInit ==
    /\ accCollapsible \in BOOLEAN
    /\ accMultiple \in BOOLEAN
    /\ \E n \in 0..MaxItems :
          accItems \in [1..n -> {NewItem(o, d) : o \in BOOLEAN, d \in BOOLEAN}]
    /\ accSlotDone = FALSE
    /\ accError = FALSE
    /\ accLastOp = NoOp
    /\ accFocus = 0
    /\ accPrevented = FALSE

AccIdle ==
    /\ accCollapsible = FALSE
    /\ accMultiple = FALSE
    /\ accItems = <<>>
    /\ accSlotDone = FALSE
    /\ accError = FALSE
    /\ accLastOp = NoOp
    /\ accFocus = 0
    /\ accPrevented = FALSE

AccNext ==
    \/ HandleSlotChange
    \/ \E i \in AccIndices : \E op \in ItemOps : ItemCall(i, op)
    \/ \E i \in AccIndices : ItemUpdate(i)
    \/ \E i \in AccIndices : \E prevented \in BOOLEAN : ItemFlush(i, prevented)
    \/ \E c \in BOOLEAN : \E m \in BOOLEAN : AccSetConfig(c, m)
    \/ \E i \in AccIndices : AccFocusTrigger(i)
    \/ \E key \in NavKeys : AccKeyDown(key)

-----------------------------------------------------------------------------
(* Claims about the Accordion and its items *)

Expanded == {i \in AccIndices : accItems[i].expanded}

\* C1: an accordion with multiple=false and collapsible=false and at least
\* one item has, after the slot-change derivation and with every item's
\* notifications delivered, exactly one expanded item.
C1_Original ==
    (AccQuiescent /\ ~accError /\ ~accMultiple /\ ~accCollapsible
        /\ Len(accItems) >= 1)
    => Cardinality(Expanded) = 1

\* C11: in an accordion with multiple=false, whatever collapsible is, once the
\* slot-change derivation has run and every item's notifications have been
\* delivered, at most one item is expanded.
C11_Original ==
    (AccQuiescent /\ ~accError /\ ~accMultiple)
    => Cardinality(Expanded) <= 1

\* C12: an accordion that has no items raises no error in any of its
\* derived-state operations (slot-change derivation, reaction to a change of
\* collapsible or multiple, change propagation, keyboard navigation), in
\* every configuration.
C12_Original ==
    Len(accItems) = 0 => ~accError

IdempotentOps == {"open", "disable"}

\* C8: open() on an already expanded item, or disable() on an already
\* disabled one, changes no field of any item: expanded, disabled and
\* _collapsible stay, no update is requested, nothing is queued or scheduled.
C8_Idempotent ==
    [][\A i \in AccIndices : \A op \in IdempotentOps :
          (ItemCall(i, op) /\ CallKind(op, accItems[i]) # "other")
              => accItems' = accItems]_vars

\* open() was called on an expanded item that the user may toggle
C8_Witness ==
    /\ accLastOp = "openOnExpanded"
    /\ \E i \in AccIndices : accItems[i].expanded /\ collapsible(accItems[i])

ExpandOps == {"toggle", "open", "close", "click"}

\* the state the call aims at: open() expanded, close() collapsed; toggle()
\* and a click have none of their own
InTargetState(op, item) ==
    \/ op = "open" /\ item.expanded
    \/ op = "close" /\ ~item.expanded

\* C19: toggle(), open(), close() and a click leave `expanded` unchanged when
\* the item's collapsible value is false or the item is already in the state
\* the call aims at, and disable() and enable() never change `expanded`.
C19_ExpandedKept ==
    [][\A i \in AccIndices : \A op \in ItemOps :
          (/\ ItemCall(i, op)
           /\ \/ op \in {"disable", "enable"}
              \/ op \in ExpandOps /\ ~collapsible(accItems[i])
              \/ InTargetState(op, accItems[i]))
              => accItems'[i].expanded = accItems[i].expanded]_vars

\* the last call was made on an expanded item that is not collapsible, and
\* the item is still expanded
C19_Witness ==
    /\ accLastOp = "closeOnFixed"
    /\ \E i \in AccIndices : accItems[i].expanded /\ ~collapsible(accItems[i])

\* the accordion of the scenario: three items, none open when the slotchange
\* was handled, collapsible=false, multiple=false, and no call made since
C9_Scenario ==
    /\ accLastOp = "deriveNoneOpen"
    /\ Len(accItems) = 3
    /\ ~accCollapsible
    /\ ~accMultiple

\* C9 as stated: item 0 is expanded and not collapsible, items 1 and 2 are
\* not expanded and not collapsible.
C9_Original ==
    C9_Scenario =>
        /\ accItems[1].expanded /\ ~collapsible(accItems[1])
        /\ \A i \in 2..3 : ~accItems[i].expanded /\ ~collapsible(accItems[i])

\* C9 amended: item 0 is expanded and not collapsible; items 1 and 2 are not
\* expanded and keep _collapsible = true, so each is collapsible exactly when
\* it is not disabled.
C9_Amended ==
    C9_Scenario =>
        /\ accItems[1].expanded /\ ~collapsible(accItems[1])
        /\ \A i \in 2..3 :
              /\ ~accItems[i].expanded
              /\ accItems[i]._collapsible
              /\ collapsible(accItems[i]) = ~accItems[i].disabled

\* the scenario after the first render, with items 1 and 2 enabled
C9_Witness ==
    /\ C9_Scenario
    /\ AccQuiescent
    /\ \A i \in 2..3 : ~accItems[i].disabled

\* C30: on the slot change of an accordion with multiple=false and
\* collapsible=false in which several items carry `open`, the first of them
\* (in item order) is the only expanded item afterwards and is marked
\* non-collapsible, and every other item that carried `open` is closed.
C30_Original ==
    [][(/\ HandleSlotChange
        /\ ~accMultiple /\ ~accCollapsible
        /\ Cardinality(OpenAttrItems(accItems)) >= 2)
       => LET kept == Min(OpenAttrItems(accItems))
          IN  /\ accItems'[kept].expanded
              /\ ~accItems'[kept]._collapsible
              /\ \A j \in OpenAttrItems(accItems) \ {kept} :
                    ~accItems'[j].expanded
              /\ {i \in AccIndices : accItems'[i].expanded} = {kept}]_vars

\* the slot change has just closed an item that carries `open` in an
\* accordion with multiple=false and collapsible=false
C30_Witness ==
    /\ accLastOp = "deriveSomeOpen"
    /\ accSlotDone
    /\ ~accMultiple /\ ~accCollapsible
    /\ Cardinality(OpenAttrItems(accItems)) >= 2
    /\ \E k \in AccIndices :
          /\ Expanded = {k}
          /\ k = Min(OpenAttrItems(accItems))
          /\ ~accItems[k]._collapsible

\* the items the accordion has marked non-collapsible
NonCollapsible == {i \in AccIndices : ~accItems[i]._collapsible}

\* C31: in an accordion with multiple=false and collapsible=false, once the
\* notifications of the items have been processed (every quiescent state),
\* the item marked non-collapsible is exactly the expanded one and every
\* other item is marked collapsible.
C31_Original ==
    (AccQuiescent /\ ~accError /\ ~accMultiple /\ ~accCollapsible
        /\ Len(accItems) >= 1)
    => NonCollapsible = Expanded

-----------------------------------------------------------------------------
(* tree-item.ts : TreeItem                                                  *)

\* One TreeItem:
\*   selected, expanded, disabled  the reflected properties
\*   attr           the `selected` attribute; it follows `selected` when the
\*                  item's update runs (reflect: true)
\*   indeterminate, selectable     the @state fields the tree writes
NewTreeItem(isSelected, isDisabled) ==
    [selected |-> isSelected, attr |-> isSelected, expanded |-> FALSE,
     disabled |-> isDisabled, indeterminate |-> FALSE, selectable |-> FALSE]

\* getChildren({ includeDisabled }): the item's child items in document order
getChildren(its, i, includeDisabled) ==
    SortedSeq({j \in 1..Len(its) :
                  treeParent[j] = i /\ (includeDisabled \/ ~its[j].disabled)})

\* get hasChildren()
hasChildren(i) == \E j \in DOMAIN treeParent : treeParent[j] = i

\* The handlers below run on st = [items, micro]: the item records and the
\* microtask queue.  Writing a reactive property with a new value requests the
\* item's update, which is queued unless one is pending already.
RequestUpdate(st, i) ==
    IF i \in Range(st.micro) THEN st
    ELSE [st EXCEPT !.micro = Append(@, i)]

SetSelected(st, i, v) ==
    IF st.items[i].selected = v THEN st
    ELSE RequestUpdate([st EXCEPT !.items[i].selected = v], i)

SetIndeterminate(st, i, v) ==
    IF st.items[i].indeterminate = v THEN st
    ELSE RequestUpdate([st EXCEPT !.items[i].indeterminate = v], i)

SetItemExpanded(st, i, v) ==
    IF st.items[i].expanded = v THEN st
    ELSE RequestUpdate([st EXCEPT !.items[i].expanded = v], i)

-----------------------------------------------------------------------------
(* tree.ts : Tree                                                           *)

\* get selectedItems()
selectedItems(its) == {i \in 1..Len(its) : its[i].selected}

\* mutant: the comparison looks at the number of selected items only
selectionChangedByCount(oldSelection, newSelection) ==
    Cardinality(oldSelection) # Cardinality(newSelection)

\* #selectionChanged
selectionChanged(oldSelection, newSelection) ==
    \/ Cardinality(oldSelection) # Cardinality(newSelection)
    \/ \E item \in newSelection : item \notin oldSelection

\* #syncDescendantCheckboxes over the child list cs
RECURSIVE SyncChildList(_, _, _)
SyncChildList(st, cs, sel) ==
    IF cs = <<>> THEN st
    ELSE LET c   == Head(cs)
             st1 == IF st.items[c].selectable
                    THEN SetIndeterminate(SetSelected(st, c, sel), c, FALSE)
                    ELSE st
             st2 == SyncChildList(st1, getChildren(st1.items, c, FALSE), sel)
         IN  SyncChildList(st2, Tail(cs), sel)

\* #syncDescendantCheckboxes
syncDescendantCheckboxes(st, i, sel) ==
    SyncChildList(st, getChildren(st.items, i, FALSE), sel)

\* mutant: a parent with one checked child counts as checked
syncParentCheckboxesAnyChecked(st, i) ==
    LET children == getChildren(st.items, i, FALSE)
        checked  == {c \in Range(children) :
                        st.items[c].selected /\ ~st.items[c].indeterminate}
    IN  IF children = <<>> \/ ~st.items[i].selectable THEN st
        ELSE IF checked # {}
             THEN SetIndeterminate(SetSelected(st, i, TRUE), i, FALSE)
             ELSE SetIndeterminate(SetSelected(st, i, FALSE), i, FALSE)

\* #syncParentCheckboxes
syncParentCheckboxes(st, i) ==
    LET children == getChildren(st.items, i, FALSE)
        totalChecked == {c \in Range(children) :
                            st.items[c].selected /\ ~st.items[c].indeterminate}
        totalIndeterminate == {c \in Range(children) : st.items[c].indeterminate}
    IN  IF children = <<>> \/ ~st.items[i].selectable THEN st
        ELSE IF Cardinality(totalChecked) = Len(children)
             THEN SetIndeterminate(SetSelected(st, i, TRUE), i, FALSE)
             ELSE IF totalChecked = {} /\ totalIndeterminate = {}
                  THEN SetIndeterminate(SetSelected(st, i, FALSE), i, FALSE)
                  ELSE SetIndeterminate(SetSelected(st, i, FALSE), i, TRUE)

\* #syncAncestorCheckboxes
RECURSIVE syncAncestorCheckboxes(_, _)
syncAncestorCheckboxes(st, i) ==
    LET parentItem == treeParent[i]
    IN  IF parentItem = 0 THEN st
        ELSE LET st1 == syncParentCheckboxes(st, parentItem)
             IN  IF st1.items[parentItem].selectable
                 THEN syncAncestorCheckboxes(st1, parentItem)
                 ELSE st1

\* #syncCheckboxes
syncCheckboxes(st, i) ==
    syncAncestorCheckboxes(
        syncParentCheckboxes(
            syncDescendantCheckboxes(st, i, st.items[i].selected), i), i)

\* item.selected = f(item) for every item from k on, in document order
RECURSIVE SelectEach(_, _, _)
SelectEach(st, k, keep) ==
    IF k > Len(st.items) THEN st
    ELSE SelectEach(SetSelected(st, k, k = keep), k + 1, keep)

\* #enforceSingleSelection
enforceSingleSelection(st, keep) == SelectEach(st, 1, keep)

\* #selectItem
selectItem(st, i) ==
    IF ~st.items[i].selectable \/ st.items[i].disabled THEN st
    ELSE IF treeSelection = "multiple"
         THEN LET st1 == SetSelected(st, i, ~st.items[i].selected)
              IN  IF treeStrategy = "leaf" THEN syncCheckboxes(st1, i) ELSE st1
         ELSE IF treeSelection = "single"
              THEN enforceSingleSelection(st, i)
              ELSE st

TreeIndices == 1..Len(treeItems)

TreeSt == [items |-> treeItems, micro |-> treeMicro]

\* the handler's loop stops at the first record whose attributeName is
\* `selected` (every record is one: attributeFilter), so only that record's
\* target is looked at
handleMutation(st, records, lastSelection, queued) ==
    IF ~treeSlotDone \/ records = <<>>
    THEN [st |-> st, lastSelection |-> lastSelection, queued |-> queued]
    ELSE LET target == Head(records)
         IN  IF treeSelection = "none"
             THEN [st |-> SelectEach(st, 1, 0),
                   lastSelection |-> lastSelection, queued |-> queued]
             ELSE LET st1 ==
                          IF treeSelection = "single"
                             /\ Cardinality(selectedItems(st.items)) > 1
                          THEN enforceSingleSelection(st, target)
                          ELSE IF treeSelection = "multiple"
                                  /\ treeStrategy = "leaf"
                               THEN syncCheckboxes(st, target)
                               ELSE st
                      newSelection == selectedItems(st1.items)
                  IN  IF selectionChanged(lastSelection, newSelection)
                      THEN [st |-> IF Null \in Range(st1.micro) THEN st1
                                   ELSE [st1 EXCEPT !.micro = Append(@, Null)],
                            lastSelection |-> newSelection,
                            queued |-> queued + 1]
                      ELSE [st |-> st1, lastSelection |-> lastSelection,
                            queued |-> queued]

\* mutant: the rule reads the strategy property itself
SelectableByStrategy(i) ==
    /\ treeSelection # "none"
    /\ ~(treeSelection = "single" /\ treeStrategy = "leaf" /\ hasChildren(i))
    /\ ~(treeSelection = "multiple" /\ treeStrategy = "leaf"
            /\ treeOnlyLeaf /\ hasChildren(i))

\* #handleSlotChange: item.selectable
Selectable(i) ==
    LET leafStrategy == IF treeStrategy = "all" /\ treeOnlyLeaf
                        THEN "leaf" ELSE treeStrategy
    IN  /\ treeSelection # "none"
        /\ ~(treeSelection = "single" /\ leafStrategy = "leaf" /\ hasChildren(i))
        /\ ~(treeSelection = "multiple" /\ leafStrategy = "leaf"
                /\ treeOnlyLeaf /\ hasChildren(i))

\* this.selectedItems.forEach(item => this.#syncCheckboxes(item))
RECURSIVE SyncEach(_, _)
SyncEach(st, sel) ==
    IF sel = <<>> THEN st
    ELSE SyncEach(syncCheckboxes(st, Head(sel)), Tail(sel))

\* the slot's slotchange event: #handleSlotChange.  #updateHierarchy writes
\* level, posinset and setsize of every item, so every item's update is
\* requested, in document order.
TreeSlotChange ==
    /\ ~treeSlotDone
    /\ LET its1 == [i \in TreeIndices |->
                       [treeItems[i] EXCEPT !.selectable = Selectable(i)]]
           st0  == [items |-> its1, micro |-> SortedSeq(TreeIndices)]
           st1  == IF treeSelection = "multiple" /\ treeStrategy = "leaf"
                      /\ ~treeOnlyLeaf
                   THEN SyncEach(st0, SortedSeq(selectedItems(its1)))
                   ELSE st0
       IN  /\ treeItems' = st1.items
           /\ treeMicro' = st1.micro
           /\ treeLastSelection' = selectedItems(st1.items)
    /\ treeSlotDone' = TRUE
    /\ UNCHANGED <<treeParent, treeSelection, treeStrategy, treeOnlyLeaf,
                   treeEvents, treeRecords, treeScriptOps, treeLog>>
    /\ UNCHANGED exceptTree

\* the microtask at the head of the queue is an item's Lit update: `selected`
\* is reflected to the attribute; a changed attribute is a mutation record,
\* and the observer's callback is queued unless it is already
ItemUpdateTask ==
    /\ treeMicro # <<>>
    /\ Head(treeMicro) > 0
    /\ LET i       == Head(treeMicro)
           rest    == Tail(treeMicro)
           reflect == treeItems[i].selected # treeItems[i].attr
       IN  /\ treeItems' = [treeItems EXCEPT ![i].attr = treeItems[i].selected]
           /\ treeRecords' = IF reflect /\ treeSlotDone
                             THEN Append(treeRecords, i) ELSE treeRecords
           /\ treeMicro' = IF reflect /\ treeSlotDone /\ 0 \notin Range(rest)
                           THEN Append(rest, 0) ELSE rest
    /\ treeScriptOps' = 0
    /\ UNCHANGED <<treeParent, treeSelection, treeStrategy, treeOnlyLeaf,
                   treeSlotDone, treeLastSelection, treeEvents, treeLog>>
    /\ UNCHANGED exceptTree

\* the microtask at the head of the queue is the observer's callback: it
\* gets every record queued so far
MutationTask ==
    /\ treeMicro # <<>>
    /\ Head(treeMicro) = 0
    /\ LET res == handleMutation([items |-> treeItems, micro |-> Tail(treeMicro)],
                                 treeRecords, treeLastSelection, treeEvents)
       IN  /\ treeItems' = res.st.items
           /\ treeMicro' = res.st.micro
           /\ treeLastSelection' = res.lastSelection
           /\ treeEvents' = res.queued
    /\ treeRecords' = <<>>
    /\ treeScriptOps' = 0
    /\ UNCHANGED <<treeParent, treeSelection, treeStrategy, treeOnlyLeaf,
                   treeSlotDone, treeLog>>
    /\ UNCHANGED exceptTree

\* the microtask at the head of the queue is the flush of the Tree's events
TreeFlushTask ==
    /\ treeMicro # <<>>
    /\ Head(treeMicro) = Null
    /\ treeMicro' = Tail(treeMicro)
    /\ treeEvents' = 0
    /\ treeScriptOps' = 0
    /\ UNCHANGED <<treeParent, treeSelection, treeStrategy, treeOnlyLeaf,
                   treeItems, treeSlotDone, treeLastSelection, treeRecords,
                   treeLog>>
    /\ UNCHANGED exceptTree

\* no microtask is pending after the first render
TreeQuiescent == treeSlotDone /\ treeMicro = <<>>

\* the log is off, or holds the operations made so far while they fit
LogOff == <<[op |-> "off", item |-> 0]>>

AppendLog(op, i) ==
    IF treeLog = LogOff \/ Len(treeLog) >= MaxTreeLog THEN LogOff
    ELSE Append(treeLog, [op |-> op, item |-> i])

\* #handleClick: a click inside item i, in a task of its own
TreeClick(i) ==
    /\ TreeQuiescent
    /\ ~treeItems[i].disabled
    /\ LET st1 == selectItem(TreeSt, i)
       IN  treeItems' = st1.items /\ treeMicro' = st1.micro
    /\ treeLog' = AppendLog("click", i)
    /\ UNCHANGED <<treeParent, treeSelection, treeStrategy, treeOnlyLeaf,
                   treeSlotDone, treeLastSelection, treeEvents, treeRecords,
                   treeScriptOps>>
    /\ UNCHANGED exceptTree

\* #handleKeyDown for Enter or Space while item i has the focus (a disabled
\* item is not focusable); visibility of nested items is left to the CSS
TreeKeySelect(i) ==
    /\ TreeQuiescent
    /\ ~treeItems[i].disabled
    /\ LET st1 == selectItem(TreeSt, i)
           st2 == IF treeSelection = "none"
                  THEN SetItemExpanded(st1, i, ~st1.items[i].expanded)
                  ELSE st1
       IN  treeItems' = st2.items /\ treeMicro' = st2.micro
    /\ treeLog' = AppendLog("key", i)
    /\ UNCHANGED <<treeParent, treeSelection, treeStrategy, treeOnlyLeaf,
                   treeSlotDone, treeLastSelection, treeEvents, treeRecords,
                   treeScriptOps>>
    /\ UNCHANGED exceptTree

\* A script adds (v = TRUE) or removes (v = FALSE) item i's `selected`
\* attribute: the record is queued and the observer's callback scheduled, then
\* attributeChangedCallback writes the property.  A script task makes up to
\* MaxScriptOps such writes before the microtasks run.
TreeSetAttribute(i, v) ==
    /\ treeSlotDone
    /\ treeMicro = <<>> \/ (treeScriptOps > 0 /\ treeScriptOps < MaxScriptOps)
    /\ treeItems[i].attr # v
    /\ LET st0 == [items |-> [treeItems EXCEPT ![i].attr = v],
                   micro |-> IF 0 \in Range(treeMicro) THEN treeMicro
                             ELSE Append(treeMicro, 0)]
           st1 == SetSelected(st0, i, v)
       IN  treeItems' = st1.items /\ treeMicro' = st1.micro
    /\ treeRecords' = Append(treeRecords, i)
    /\ treeScriptOps' = treeScriptOps + 1
    /\ treeLog' = AppendLog(IF v THEN "add" ELSE "remove", i)
    /\ UNCHANGED <<treeParent, treeSelection, treeStrategy, treeOnlyLeaf,
                   treeSlotDone, treeLastSelection, treeEvents>>
    /\ UNCHANGED exceptTree

\* the parent vectors of the trees of n items numbered in document order
RECURSIVE AncestorsOrSelf(_, _)
AncestorsOrSelf(p, i) ==
    IF i = 0 \/ i = Null THEN {} ELSE {i} \cup AncestorsOrSelf(p, p[i])

TreeShapes(n) ==
    {p \in [1..n -> 0..(n - 1)] :
        \A i \in 1..n :
            /\ p[i] < i
            /\ i > 1 => (p[i] = 0 \/ p[i] \in AncestorsOrSelf(p, i - 1))}

Selections == {"none", "single", "multiple"}
Strategies == {"all", "leaf"}

\* markup of n items: at most MaxDisabled carry `disabled`, none is selected
\* unless anySelected
TreeMarkup(n, anySelected) ==
    {its \in [1..n -> {NewTreeItem(s, d) : s \in BOOLEAN, d \in BOOLEAN}] :
        /\ Cardinality({i \in 1..n : its[i].disabled}) <= MaxDisabled
        /\ anySelected \/ \A i \in 1..n : ~its[i].selected}

\* the page as parsed: any tree of up to MaxTreeItems items
TreeInit ==
    /\ \E n \in 1..MaxTreeItems :
          /\ treeParent \in TreeShapes(n)
          /\ treeItems \in TreeMarkup(n, TRUE)
    /\ treeSelection \in Selections
    /\ treeStrategy \in Strategies
    /\ treeOnlyLeaf \in BOOLEAN
    /\ treeSlotDone = FALSE
    /\ treeLastSelection = {}
    /\ treeEvents = 0
    /\ treeRecords = <<>>
    /\ treeMicro = <<>>
    /\ treeScriptOps = 0
    /\ treeLog = LogOff

\* the page of a scenario: a multiple-selection tree of three items with
\* nothing selected, and the operations made on it are logged
TreeScenarioInit ==
    /\ treeParent \in TreeShapes(3)
    /\ treeItems \in TreeMarkup(3, FALSE)
    /\ treeSelection = "multiple"
    /\ treeStrategy \in Strategies
    /\ treeOnlyLeaf \in BOOLEAN
    /\ treeSlotDone = FALSE
    /\ treeLastSelection = {}
    /\ treeEvents = 0
    /\ treeRecords = <<>>
    /\ treeMicro = <<>>
    /\ treeScriptOps = 0
    /\ treeLog = <<>>

\* the page of the single-selection scenario: a tree of three items, any of
\* them selected in the markup, and the operations made on it are logged
TreeSingleScenarioInit ==
    /\ treeParent \in TreeShapes(3)
    /\ treeItems \in TreeMarkup(3, TRUE)
    /\ treeSelection = "single"
    /\ treeStrategy \in Strategies
    /\ treeOnlyLeaf \in BOOLEAN
    /\ treeSlotDone = FALSE
    /\ treeLastSelection = {}
    /\ treeEvents = 0
    /\ treeRecords = <<>>
    /\ treeMicro = <<>>
    /\ treeScriptOps = 0
    /\ treeLog = <<>>

TreeIdle ==
    /\ treeParent = <<>>
    /\ treeItems = <<>>
    /\ treeSelection = "single"
    /\ treeStrategy = "all"
    /\ treeOnlyLeaf = FALSE
    /\ treeSlotDone = FALSE
    /\ treeLastSelection = {}
    /\ treeEvents = 0
    /\ treeRecords = <<>>
    /\ treeMicro = <<>>
    /\ treeScriptOps = 0
    /\ treeLog = LogOff

TreeNext ==
    \/ TreeSlotChange
    \/ ItemUpdateTask
    \/ MutationTask
    \/ TreeFlushTask
    \/ \E i \in TreeIndices : TreeClick(i)
    \/ \E i \in TreeIndices : TreeKeySelect(i)
    \/ \E i \in TreeIndices : \E v \in BOOLEAN : TreeSetAttribute(i, v)

-----------------------------------------------------------------------------
(* Claims about the Tree *)

\* C2: in a single-selection tree, once the microtasks of a click, an
\* Enter/Space press or a script's writes of `selected` attributes have run
\* (items selected in the markup included), at most one item is selected.
C2_Original ==
    (TreeQuiescent /\ treeSelection = "single")
    => Cardinality(selectedItems(treeItems)) <= 1

\* the children the tree's checkbox algorithm looks at
EnabledChildren(i) == Range(getChildren(treeItems, i, FALSE))

Checked(c) == treeItems[c].selected /\ ~treeItems[c].indeterminate

TriState(i) ==
    /\ treeItems[i].selected = (\A c \in EnabledChildren(i) : Checked(c))
    /\ treeItems[i].indeterminate =
          (/\ \E c \in EnabledChildren(i) :
                 treeItems[c].selected \/ treeItems[c].indeterminate
           /\ ~(\A c \in EnabledChildren(i) : Checked(c)))

\* C3: in a multiple-selection tree with the leaf strategy (and checkboxes on
\* every item), once the microtasks have run, every item with children is
\* selected exactly when all its children are checked, and indeterminate
\* exactly when some child is selected or indeterminate but not all are
\* checked.
C3_Original ==
    (TreeQuiescent /\ treeSelection = "multiple" /\ treeStrategy = "leaf"
        /\ ~treeOnlyLeaf)
    => \A i \in TreeIndices : EnabledChildren(i) # {} => TriState(i)

\* the tree of the scenario: root A (item 1) with leaf children B and C
\* (items 2 and 3), all enabled, multiple selection, leaf strategy
TreeABC ==
    /\ treeParent = <<0, 1, 1>>
    /\ treeSelection = "multiple"
    /\ treeStrategy = "leaf"
    /\ ~treeOnlyLeaf
    /\ \A i \in TreeIndices : ~treeItems[i].disabled

\* the ways of selecting item i: a click, Enter/Space, or adding `selected`
Selecting(i) == {[op |-> o, item |-> i] : o \in {"click", "key", "add"}}

SelectedBThenC == treeLog \in {<<b, c>> : b \in Selecting(2), c \in Selecting(3)}
SelectedOnlyB == treeLog \in {<<b>> : b \in Selecting(2)}

LastAdded ==
    IF treeLog # LogOff /\ treeLog # <<>> /\ treeLog[Len(treeLog)].op = "add"
    THEN treeLog[Len(treeLog)].item ELSE 0

\* C14: in a single-selection tree, once the microtasks have run, at most one
\* of the items selected in the markup is still selected, and after a script
\* has added `selected` attributes the item whose attribute was added last is
\* the only selected item.
C14_Original ==
    (TreeQuiescent /\ treeSelection = "single") =>
        /\ treeLog = <<>> => Cardinality(selectedItems(treeItems)) <= 1
        /\ LastAdded # 0 => selectedItems(treeItems) = {LastAdded}

\* a run of the mutation handler on at least one `selected` record
HandlerRun == MutationTask /\ treeSlotDone /\ treeRecords # <<>>

\* the run queues one notification when the selected set it leaves differs
\* from the snapshot it found, and none when the two are equal
NotifiesExactly ==
    treeEvents' = treeEvents +
        (IF selectedItems(treeItems') # treeLastSelection THEN 1 ELSE 0)

\* C15 as stated: in every tree, a run of the mutation handler queues one
\* selection-change notification exactly when the selected set it computed
\* differs from the last known snapshot.
C15_Original == [][HandlerRun => NotifiesExactly]_vars

\* C15 amended: in a tree whose selection is single or multiple, a run of the
\* mutation handler queues one selection-change notification exactly when the
\* selected set it computed differs from the last known snapshot.
C15_Amended ==
    [][(HandlerRun /\ treeSelection # "none") => NotifiesExactly]_vars

\* a handler run has queued a notification for a new, non-empty selected set
\* and the snapshot is that set
C15_Witness ==
    /\ treeSelection # "none"
    /\ treeEvents > 0
    /\ treeLastSelection # {}
    /\ treeLastSelection = selectedItems(treeItems)

\* C16 as stated: after the slotchange, an item is selectable exactly when
\* selection is not none and it is not an item with children in a tree that
\* is single with strategy leaf, or multiple with strategy leaf and
\* onlyLeafCheckboxes.
C16_Original ==
    treeSlotDone =>
        \A i \in TreeIndices :
            treeItems[i].selectable =
                (/\ treeSelection # "none"
                 /\ ~(/\ hasChildren(i)
                      /\ \/ treeSelection = "single" /\ treeStrategy = "leaf"
                         \/ /\ treeSelection = "multiple"
                            /\ treeStrategy = "leaf"
                            /\ treeOnlyLeaf))

\* C16 amended: after the slotchange, an item is selectable exactly when
\* selection is not none and it is not an item with children in a tree that
\* is single with strategy leaf or onlyLeafCheckboxes, or multiple with
\* onlyLeafCheckboxes (whatever the strategy).
C16_Amended ==
    treeSlotDone =>
        \A i \in TreeIndices :
            treeItems[i].selectable =
                (/\ treeSelection # "none"
                 /\ ~(/\ hasChildren(i)
                      /\ \/ /\ treeSelection = "single"
                            /\ (treeStrategy = "leaf" \/ treeOnlyLeaf)
                         \/ treeSelection = "multiple" /\ treeOnlyLeaf))

\* the slotchange has run on a tree with strategy all and onlyLeafCheckboxes
\* and left an item that has children not selectable
C16_Witness ==
    /\ treeSlotDone
    /\ treeStrategy = "all"
    /\ treeOnlyLeaf
    /\ \E i \in TreeIndices : hasChildren(i) /\ ~treeItems[i].selectable

\* the only operation made on the tree so far is one write of an item's
\* `selected` attribute by a script, made while no microtask was pending
OneExternalMutation ==
    /\ Len(treeLog) = 1
    /\ treeLog[1].op \in {"add", "remove"}

\* C29: the writes the mutation handler makes to the items' `selected` do not
\* come back to it: after one external mutation every run of the handler is
\* for the record of that mutation only, none for the reflection of the
\* handler's own writes.
C29_Original ==
    [][(MutationTask /\ OneExternalMutation /\ treeRecords # <<>>)
       => treeRecords = <<treeLog[1].item>>]_vars

\* the scenario: composite item 1 with the leaf items 2 and 3, none disabled,
\* in a tree with selection=multiple and strategy=leaf; a click on item 1 has
\* selected all three, then item 2 was deselected by a click or by the
\* removal of its `selected` attribute, and every microtask has run
C37_Scenario ==
    /\ treeParent = <<0, 1, 1>>
    /\ treeSelection = "multiple" /\ treeStrategy = "leaf" /\ ~treeOnlyLeaf
    /\ \A i \in TreeIndices : ~treeItems[i].disabled
    /\ Len(treeLog) = 2
    /\ treeLog[1] = [op |-> "click", item |-> 1]
    /\ treeLog[2].item = 2 /\ treeLog[2].op \in {"click", "remove"}
    /\ TreeQuiescent

\* C37: the scenario ends with item 2 unselected, item 3 still selected and
\* item 1 indeterminate.
C37_Original ==
    C37_Scenario =>
        /\ ~treeItems[2].selected
        /\ treeItems[3].selected
        /\ treeItems[1].indeterminate

\* C38: in a tree with selection=single and strategy=leaf, once the mutation
\* handler has run for the `selected` attributes a script wrote, no item that
\* has children is selected.
C38_Original ==
    [][(/\ MutationTask
        /\ treeSlotDone /\ treeRecords # <<>>
        /\ treeSelection = "single" /\ treeStrategy = "leaf")
       => \A i \in TreeIndices : treeItems'[i].selected => ~hasChildren(i)]_vars

-----------------------------------------------------------------------------
(* dialog.ts : Dialog and the open-dialog stack                             *)

Dialogs == 1..MaxDialogs

\* The pages of the model, as parent vectors over four elements; elements
\* above MaxDialogs are plain elements of the page.
DomLayouts ==
    { <<0, 0, 0, 0>>,     \* every element is a child of the body
      <<0, 1, 0, 0>>,     \* element 2 is nested in dialog 1
      <<0, 4, 4, 0>>,     \* elements 2 and 3 are inside element 4
      <<4, 4, 0, 0>>,     \* elements 1 and 2 are inside element 4
      <<4, 3, 0, 0>> }    \* element 1 is inside 4, element 2 inside 3

DomNodes == DOMAIN domParent

\* #getElementsToInert: the siblings of the dialog and of each of its
\* ancestors below the body
getElementsToInert(d) ==
    {x \in DomNodes :
        \E a \in AncestorsOrSelf(domParent, d) :
            domParent[x] = domParent[a] /\ x # a}

\* an element is inert when it or an ancestor carries the attribute
IsInert(x, inert) == x # 0 /\ AncestorsOrSelf(domParent, x) \cap inert # {}

\* element.isConnected: a removed element has no parent (Null), and the
\* elements below it leave the document with it
IsConnected(x) == \A a \in AncestorsOrSelf(domParent, x) : domParent[a] # Null

\* the dialogs whose disconnectedCallback runs when x is removed
DialogsWithin(x) == {d \in Dialogs : x \in AncestorsOrSelf(domParent, d)}

\* element.focus(): an inert element, or one that is not in the document,
\* does not take the focus
FocusElement(active, x, inert) ==
    IF IsInert(x, inert) \/ ~IsConnected(x) THEN active ELSE x

\* the microtasks of the dialogs
UpdateOf(d) == [kind |-> "update", dialog |-> d]
ThenOf(d) == [kind |-> "then", dialog |-> d]
FlushOf(d) == [kind |-> "flush", dialog |-> d]

Enqueue(micro, task) ==
    IF task \in Range(micro) THEN micro ELSE Append(micro, task)

\* the handlers run on a record s of the dialogs' mutable state
DlgState ==
    [open |-> dlgOpen, changed |-> dlgChanged, trans |-> dlgTransitioning,
     phase |-> dlgPhase, inertEls |-> dlgInertElements,
     lastFocused |-> dlgLastFocused, events |-> dlgEvents,
     stack |-> openDialogs, inert |-> inertAttr,
     overflow |-> bodyOverflowHidden, active |-> activeElement,
     micro |-> dlgMicro]

\* a write of the reactive property `open`
SetOpen(s, d, v) ==
    IF s.open[d] = v THEN s
    ELSE [s EXCEPT !.open[d] = v, !.changed[d] = TRUE,
                   !.micro = Enqueue(@, UpdateOf(d))]

\* openDialogs.splice(openDialogs.indexOf(d), 1)
RECURSIVE RemoveFirst(_, _)
RemoveFirst(q, d) ==
    IF q = <<>> THEN <<>>
    ELSE IF Head(q) = d THEN Tail(q)
    ELSE <<Head(q)>> \o RemoveFirst(Tail(q), d)

\* #handleShow, up to the requestAnimationFrame call
handleShow(s, d) ==
    IF s.trans[d] THEN s
    ELSE LET stack1   == Append(s.stack, d)
             onStack  == Range(stack1)
             released == UNION {s.inertEls[x] : x \in onStack}
             mine     == getElementsToInert(d)
         IN  [s EXCEPT !.trans[d] = TRUE,
                       !.phase[d] = "enterFrame",
                       !.overflow = TRUE,
                       !.lastFocused[d] = s.active,
                       !.stack = stack1,
                       !.inertEls = [x \in Dialogs |->
                                        IF x = d THEN mine
                                        ELSE IF x \in onStack THEN {}
                                        ELSE s.inertEls[x]],
                       !.inert = (s.inert \ released) \cup mine]

\* #handleShowAfter, then the promise's callback is queued
handleShowAfter(s, d) ==
    [s EXCEPT !.active = FocusElement(s.active, d, s.inert),
              !.phase[d] = "enterThen",
              !.micro = Enqueue(@, ThenOf(d))]

\* mutant: #handleHide leaves the dialog on the stack
handleHideKeepOnStack(s, d) ==
    IF s.trans[d] THEN s
    ELSE [s EXCEPT !.trans[d] = TRUE, !.phase[d] = "leaveFrame"]

\* #handleHide, up to the requestAnimationFrame call
handleHide(s, d) ==
    IF s.trans[d] THEN s
    ELSE [s EXCEPT !.trans[d] = TRUE,
                   !.phase[d] = "leaveFrame",
                   !.stack = RemoveFirst(s.stack, d)]

\* #cleanupAfterClose
cleanupAfterClose(s, d) ==
    LET inert1 == s.inert \ s.inertEls[d]
        last   == IF s.stack = <<>> THEN 0 ELSE s.stack[Len(s.stack)]
        again  == IF last = 0 THEN {} ELSE getElementsToInert(last)
        inert2 == inert1 \cup again
    IN  [s EXCEPT !.inert = inert2,
                  !.inertEls = [x \in Dialogs |->
                                   IF x = last THEN again
                                   ELSE IF x = d THEN {}
                                   ELSE s.inertEls[x]],
                  !.overflow = IF s.stack = <<>> THEN FALSE ELSE @,
                  !.active = IF s.lastFocused[d] = Null THEN @
                             ELSE FocusElement(@, s.lastFocused[d], inert2),
                  !.lastFocused[d] = Null]

\* #handleHideAfter, then the promise's callback is queued
handleHideAfter(s, d) ==
    LET s1 == cleanupAfterClose(SetOpen(s, d, FALSE), d)
    IN  [s1 EXCEPT !.phase[d] = "leaveThen",
                   !.micro = Enqueue(@, ThenOf(d))]

\* show()
show(s, d) == IF s.open[d] THEN s ELSE SetOpen(s, d, TRUE)

\* mutant: hide() without the test of `open`
hideUnguarded(s, d) == handleHide(s, d)

\* hide()
hide(s, d) == IF ~s.open[d] THEN s ELSE handleHide(s, d)

\* the document's keydown listener, for the Escape key
documentKeydownListener(s) ==
    IF s.stack = <<>> THEN s
    ELSE LET topDialog == s.stack[Len(s.stack)]
         IN  IF s.open[topDialog] /\ dlgDismissable[topDialog]
             THEN hide(s, topDialog)
             ELSE s

\* Dialog.handleUpdated followed by queueEvents()
dialogHandleUpdated(s, d) ==
    IF ~s.changed[d] THEN s
    ELSE LET s1 == IF s.open[d] THEN handleShow(s, d)
                   ELSE IF ~s.trans[d] THEN handleHide(s, d)
                   ELSE s
         IN  [s1 EXCEPT !.changed[d] = FALSE,
                        !.events[d] = @ + 1,
                        !.micro = Enqueue(@, FlushOf(d))]

\* disconnectedCallback: #handleHide(), then BaseElement's
\* disconnectedCallback clears the event queue
disconnectedCallback(s, d) == [handleHide(s, d) EXCEPT !.events[d] = 0]

\* the callbacks of the dialogs removed together, in document order
RECURSIVE DisconnectEach(_, _)
DisconnectEach(s, ds) ==
    IF ds = {} THEN s
    ELSE LET d == CHOOSE x \in ds : \A y \in ds : x <= y
         IN  DisconnectEach(disconnectedCallback(s, d), ds \ {d})

\* the dialogs' variables after a handler has run
DlgAssign(s) ==
    /\ dlgOpen' = s.open
    /\ dlgChanged' = s.changed
    /\ dlgTransitioning' = s.trans
    /\ dlgPhase' = s.phase
    /\ dlgInertElements' = s.inertEls
    /\ dlgLastFocused' = s.lastFocused
    /\ dlgEvents' = s.events
    /\ openDialogs' = s.stack
    /\ inertAttr' = s.inert
    /\ bodyOverflowHidden' = s.overflow
    /\ activeElement' = s.active
    /\ dlgMicro' = s.micro

DlgLogOff == <<[op |-> "off", dialog |-> 0]>>

AppendDlgLog(op, d) ==
    IF dlgLog = DlgLogOff \/ Len(dlgLog) >= MaxDlgLog THEN DlgLogOff
    ELSE Append(dlgLog, [op |-> op, dialog |-> d])

\* a script calls d.show()
DlgShow(d) ==
    /\ DlgAssign(show(DlgState, d))
    /\ dlgLog' = AppendDlgLog("show", d)
    /\ UNCHANGED <<domParent, dlgDismissable, dlgInitialized>>
    /\ UNCHANGED exceptDlg

\* a script calls d.hide(), or the user clicks the dialog's close button
DlgHide(d) ==
    /\ DlgAssign(hide(DlgState, d))
    /\ dlgLog' = AppendDlgLog("hide", d)
    /\ UNCHANGED <<domParent, dlgDismissable, dlgInitialized>>
    /\ UNCHANGED exceptDlg

\* a script writes the property `open` of d, in a task of its own
DlgSetOpen(d, v) ==
    /\ dlgMicro = <<>>
    /\ DlgAssign(SetOpen(DlgState, d, v))
    /\ dlgLog' = AppendDlgLog(IF v THEN "openTrue" ELSE "openFalse", d)
    /\ UNCHANGED <<domParent, dlgDismissable, dlgInitialized>>
    /\ UNCHANGED exceptDlg

\* a script, in a task of its own, removes the element x, a dialog or an
\* element with dialogs in it, from the document: the removed subtree loses
\* the focus, and the disconnectedCallback of every dialog in it runs
DlgDisconnect(x) ==
    /\ dlgMicro = <<>>
    /\ IsConnected(x)
    /\ DialogsWithin(x) # {}
    /\ domParent' = [domParent EXCEPT ![x] = Null]
    /\ LET s == [DlgState EXCEPT !.active =
                    IF x \in AncestorsOrSelf(domParent, @) THEN 0 ELSE @]
       IN  DlgAssign(DisconnectEach(s, DialogsWithin(x)))
    /\ dlgLog' = AppendDlgLog("disconnect", x)
    /\ UNCHANGED <<dlgDismissable, dlgInitialized>>
    /\ UNCHANGED exceptDlg

\* the user presses Escape: a task, so no microtask is pending; the
\* document's listener is removed with the last connected dialog
DlgEscape ==
    /\ dlgMicro = <<>>
    /\ \E d \in Dialogs : IsConnected(d)
    /\ DlgAssign(documentKeydownListener(DlgState))
    /\ dlgLog' = AppendDlgLog("escape", 0)
    /\ UNCHANGED <<domParent, dlgDismissable, dlgInitialized>>
    /\ UNCHANGED exceptDlg

\* the microtask at the head of the queue is a dialog's Lit update:
\* BaseElement.updated runs handleUpdated except on the first update
DlgUpdateTask ==
    /\ dlgMicro # <<>>
    /\ Head(dlgMicro).kind = "update"
    /\ LET d == Head(dlgMicro).dialog
           s == [DlgState EXCEPT !.micro = Tail(dlgMicro)]
       IN  IF dlgInitialized[d]
           THEN /\ DlgAssign(dialogHandleUpdated(s, d))
                /\ UNCHANGED dlgInitialized
           ELSE /\ DlgAssign([s EXCEPT !.changed[d] = FALSE])
                /\ dlgInitialized' = [dlgInitialized EXCEPT ![d] = TRUE]
    /\ UNCHANGED <<domParent, dlgDismissable, dlgLog>>
    /\ UNCHANGED exceptDlg

\* the callback given to .then() after the transitions were waited for
DlgThenTask ==
    /\ dlgMicro # <<>>
    /\ Head(dlgMicro).kind = "then"
    /\ LET d == Head(dlgMicro).dialog
       IN  DlgAssign([DlgState EXCEPT !.micro = Tail(dlgMicro),
                                      !.trans[d] = FALSE,
                                      !.phase[d] = "idle"])
    /\ UNCHANGED <<domParent, dlgDismissable, dlgInitialized, dlgLog>>
    /\ UNCHANGED exceptDlg

\* the flush of a dialog's event queue
DlgFlushTask ==
    /\ dlgMicro # <<>>
    /\ Head(dlgMicro).kind = "flush"
    /\ LET d == Head(dlgMicro).dialog
       IN  DlgAssign([DlgState EXCEPT !.micro = Tail(dlgMicro),
                                      !.events[d] = 0])
    /\ UNCHANGED <<domParent, dlgDismissable, dlgInitialized, dlgLog>>
    /\ UNCHANGED exceptDlg

\* the requestAnimationFrame callback of #handleShow / #handleHide, with
\* #waitForEnterTransitions / #waitForLeaveTransitions up to its await: the
\* dialog has running animations, or it has none and the "after" handler
\* runs at once
DlgAnimationFrame(d, hasAnimations) ==
    /\ dlgMicro = <<>>
    /\ dlgPhase[d] \in {"enterFrame", "leaveFrame"}
    /\ LET s == DlgState
       IN  IF hasAnimations
           THEN DlgAssign([s EXCEPT !.phase[d] =
                              IF @ = "enterFrame" THEN "enterWait"
                              ELSE "leaveWait"])
           ELSE IF dlgPhase[d] = "enterFrame"
                THEN DlgAssign(handleShowAfter(s, d))
                ELSE DlgAssign(handleHideAfter(s, d))
    /\ UNCHANGED <<domParent, dlgDismissable, dlgInitialized, dlgLog>>
    /\ UNCHANGED exceptDlg

\* the animations waited for have all settled
DlgAnimationsSettled(d) ==
    /\ dlgMicro = <<>>
    /\ dlgPhase[d] \in {"enterWait", "leaveWait"}
    /\ IF dlgPhase[d] = "enterWait"
       THEN DlgAssign(handleShowAfter(DlgState, d))
       ELSE DlgAssign(handleHideAfter(DlgState, d))
    /\ UNCHANGED <<domParent, dlgDismissable, dlgInitialized, dlgLog>>
    /\ UNCHANGED exceptDlg

\* no microtask is pending and no dialog is in a show / hide sequence
DlgQuiescent ==
    /\ dlgMicro = <<>>
    /\ \A d \in Dialogs : dlgPhase[d] = "idle" /\ ~dlgTransitioning[d]

\* the dialogs before anything has run, some with `open` in the markup
DlgFields(markupOpen, initialized) ==
    /\ dlgOpen \in (IF markupOpen THEN [Dialogs -> BOOLEAN]
                    ELSE {[d \in Dialogs |-> FALSE]})
    /\ dlgInitialized = [d \in Dialogs |-> initialized]
    /\ dlgChanged = [d \in Dialogs |-> FALSE]
    /\ dlgTransitioning = [d \in Dialogs |-> FALSE]
    /\ dlgPhase = [d \in Dialogs |-> "idle"]
    /\ dlgInertElements = [d \in Dialogs |-> {}]
    /\ dlgLastFocused = [d \in Dialogs |-> Null]
    /\ dlgEvents = [d \in Dialogs |-> 0]
    /\ openDialogs = <<>>
    /\ inertAttr = {}
    /\ bodyOverflowHidden = FALSE
    /\ dlgMicro = IF initialized THEN <<>>
                  ELSE [d \in Dialogs |-> UpdateOf(d)]

\* the page as parsed: the first update of every dialog is pending
DlgInit ==
    /\ domParent \in DomLayouts
    /\ dlgDismissable \in [Dialogs -> BOOLEAN]
    /\ DlgFields(TRUE, FALSE)
    /\ activeElement \in {0} \cup (DomNodes \ Dialogs)
    /\ dlgLog = DlgLogOff

\* the page of a scenario: the dialogs are closed and have rendered, and
\* the operations made on them are logged
DlgScenarioInit ==
    /\ domParent \in DomLayouts
    /\ dlgDismissable \in [Dialogs -> BOOLEAN]
    /\ DlgFields(FALSE, TRUE)
    /\ activeElement \in {0} \cup (DomNodes \ Dialogs)
    /\ dlgLog = <<>>

DlgIdle ==
    /\ domParent = <<>>
    /\ dlgDismissable = <<>>
    /\ dlgOpen = <<>>
    /\ dlgInitialized = <<>>
    /\ dlgChanged = <<>>
    /\ dlgTransitioning = <<>>
    /\ dlgPhase = <<>>
    /\ dlgInertElements = <<>>
    /\ dlgLastFocused = <<>>
    /\ dlgEvents = <<>>
    /\ openDialogs = <<>>
    /\ inertAttr = {}
    /\ bodyOverflowHidden = FALSE
    /\ activeElement = 0
    /\ dlgMicro = <<>>
    /\ dlgLog = DlgLogOff

DlgNext ==
    \/ \E d \in Dialogs : DlgShow(d)
    \/ \E d \in Dialogs : DlgHide(d)
    \/ DlgEscape
    \/ DlgUpdateTask
    \/ DlgThenTask
    \/ DlgFlushTask
    \/ \E d \in Dialogs : \E hasAnimations \in BOOLEAN :
          DlgAnimationFrame(d, hasAnimations)
    \/ \E d \in Dialogs : DlgAnimationsSettled(d)

\* the operations on the dialogs, with the writes of `open` and the
\* removals; every operation of a script or of the user is a task of its
\* own, and no dialog is opened once MaxStackDepth entries are on the stack
DlgLifecycleNext ==
    \/ \E d \in Dialogs :
          dlgMicro = <<>> /\ Len(openDialogs) < MaxStackDepth /\ DlgShow(d)
    \/ \E d \in Dialogs : dlgMicro = <<>> /\ DlgHide(d)
    \/ \E d \in Dialogs : \E v \in BOOLEAN :
          (v => Len(openDialogs) < MaxStackDepth) /\ DlgSetOpen(d, v)
    \/ \E x \in DomNodes : DlgDisconnect(x)
    \/ DlgEscape
    \/ DlgUpdateTask
    \/ DlgThenTask
    \/ DlgFlushTask
    \/ \E d \in Dialogs : \E hasAnimations \in BOOLEAN :
          DlgAnimationFrame(d, hasAnimations)
    \/ \E d \in Dialogs : DlgAnimationsSettled(d)

\* the page of the dialogs' lifecycle: the dialogs are siblings or nested,
\* dismissable, closed and rendered, and the focus is on the body
DlgLifecycleInit ==
    /\ domParent \in {<<0, 0, 0, 0>>, <<0, 1, 0, 0>>}
    /\ dlgDismissable = [d \in Dialogs |-> TRUE]
    /\ DlgFields(FALSE, TRUE)
    /\ activeElement = 0
    /\ dlgLog = DlgLogOff

-----------------------------------------------------------------------------
(* Claims about the dialogs *)

ShownD1ThenD2 ==
    <<[op |-> "show", dialog |-> 1], [op |-> "show", dialog |-> 2]>>

ShownD1ThenD2ThenEscape == Append(ShownD1ThenD2, [op |-> "escape", dialog |-> 0])

\* C4: with D1 and D2 dismissable and closed at first, after D1.show() and
\* then D2.show() D2 is the top of the stack; after one Escape press and once
\* every show / hide sequence has completed, D1 alone is on the stack and
\* open, D2 is closed, and the inert elements are those computed for D1, D1
\* itself not being inert.
C4_Original ==
    ((\A d \in Dialogs : dlgDismissable[d]) /\ DlgQuiescent) =>
        /\ dlgLog = ShownD1ThenD2 => openDialogs = <<1, 2>>
        /\ dlgLog = ShownD1ThenD2ThenEscape =>
              /\ openDialogs = <<1>>
              /\ dlgOpen[1]
              /\ ~dlgOpen[2]
              /\ inertAttr = getElementsToInert(1)
              /\ ~IsInert(1, inertAttr)

\* C20: show() on an open dialog and hide() on a closed dialog change
\* nothing: `open`, the stack, the inert elements, the saved focus element
\* and the transition flag stay as they are, no update is requested and no
\* show or hide event is queued.
C20_NoOp ==
    [][\A d \in Dialogs :
          (\/ DlgShow(d) /\ dlgOpen[d]
           \/ DlgHide(d) /\ ~dlgOpen[d])
              => UNCHANGED <<dlgOpen, openDialogs, dlgInertElements, inertAttr,
                             dlgLastFocused, dlgTransitioning, dlgPhase,
                             dlgEvents, dlgChanged, dlgMicro,
                             bodyOverflowHidden, activeElement>>]_vars

\* show() was called twice on dialog 1, which is open
C20_Witness ==
    /\ dlgLog = <<[op |-> "show", dialog |-> 1], [op |-> "show", dialog |-> 1]>>
    /\ dlgOpen[1]

\* no dialog is in a show / hide sequence, and no update of a dialog or
\* callback of a sequence is pending
NoTransitionInFlight ==
    /\ \A d \in Dialogs : ~dlgTransitioning[d] /\ dlgPhase[d] = "idle"
    /\ \A k \in 1..Len(dlgMicro) : dlgMicro[k].kind = "flush"

\* C21: whenever the open-dialog stack is empty and no dialog transition is
\* in flight, no element carries `inert` on behalf of a dialog and the body's
\* overflow is not locked, after any sequence of show(), hide(), Escape
\* presses, writes of `open` and removals of dialogs from the document.
C21_Original ==
    (openDialogs = <<>> /\ NoTransitionInFlight) =>
        (inertAttr = {} /\ ~bodyOverflowHidden)

\* hide() has just been called on dialog d while its `open` was true
HideRequested(d) ==
    /\ dlgLog # DlgLogOff
    /\ dlgLog # <<>>
    /\ dlgLog[Len(dlgLog)] = [op |-> "hide", dialog |-> d]
    /\ dlgOpen[d]

\* dialog d has open = false and is not in the open-dialog stack
DialogClosed(d) == ~dlgOpen[d] /\ d \notin Range(openDialogs)

\* C35: after hide() was called on a dialog whose open is true, also during
\* its enter transition, the dialog eventually has open = false and is
\* absent from the open-dialog stack.
C35_Original ==
    \A d \in 1..MaxDialogs : HideRequested(d) ~> DialogClosed(d)

\* how often dialog d occurs in the open-dialog stack
Occurrences(d) == Cardinality({k \in 1..Len(openDialogs) : openDialogs[k] = d})

\* C36: whenever no transition is in flight, a dialog is in the open-dialog
\* stack exactly when its `open` is true, and at most once.
C36_Original ==
    NoTransitionInFlight
    => \A d \in Dialogs :
          /\ Occurrences(d) <= 1
          /\ (Occurrences(d) = 1) <=> dlgOpen[d]

-----------------------------------------------------------------------------
(* tab-group.ts : TabGroup, with its Tabs (tab.js)                          *)

\* One Tab:
\*   selected   the reflected property
\*   attr       the `selected` attribute; it follows the property when the
\*              tab's update runs, and a script may write it
\*   disabled   the `disabled` attribute (it is not changed in the model)
\*   tabindex   the `tabindex` attribute: "none" before the first update
NewTab(isSelected, hasAttr, isDisabled) ==
    [selected |-> isSelected, attr |-> hasAttr, disabled |-> isDisabled,
     tabindex |-> "none"]

TabIndices == 1..Len(tabs)

\* the microtask of the group's first update (firstUpdated)
GroupUpdate == Null

\* The handlers run on st = [tabs, micro, selectedTab, focus].  A write of
\* `selected` with a new value requests the tab's update.
TabSt == [tabs |-> tabs, micro |-> tabMicro, selectedTab |-> tabSelectedTab,
          focus |-> tabFocus]

SetTabSelected(st, i, v) ==
    IF st.tabs[i].selected = v THEN st
    ELSE [st EXCEPT !.tabs[i].selected = v,
                    !.micro = IF i \in Range(@) THEN @ ELSE Append(@, i)]

\* get defaultSelectedTab: querySelector('wui-tab[selected]:not([disabled])')
\* || querySelector('wui-tab:not([disabled])'); 0 for null
defaultSelectedTab(markup) ==
    LET marked  == {i \in 1..Len(markup) : markup[i].attr /\ ~markup[i].disabled}
        enabled == {i \in 1..Len(markup) : ~markup[i].disabled}
    IN  IF marked # {} THEN Min(marked)
        ELSE IF enabled # {} THEN Min(enabled) ELSE 0

\* the forEach of #updateSelectedTab from tab k on: every tab is unselected,
\* the new tab is selected again, focused and remembered
RECURSIVE UnselectEach(_, _, _)
UnselectEach(st, k, newSelectedTab) ==
    IF k > Len(st.tabs) THEN st
    ELSE LET st1 == SetTabSelected(st, k, FALSE)
             st2 == IF k = newSelectedTab
                    THEN [SetTabSelected(st1, k, TRUE) EXCEPT
                             !.focus = k, !.selectedTab = k]
                    ELSE st1
         IN  UnselectEach(st2, k + 1, newSelectedTab)

\* mutant: #updateSelectedTab that leaves the other tabs as they are
updateSelectedTabKeepOthers(st, newSelectedTab) ==
    IF newSelectedTab = st.selectedTab THEN st
    ELSE [SetTabSelected(st, newSelectedTab, TRUE) EXCEPT
             !.focus = newSelectedTab, !.selectedTab = newSelectedTab]

\* #updateSelectedTab
updateSelectedTab(st, newSelectedTab) ==
    IF newSelectedTab = st.selectedTab THEN st
    ELSE UnselectEach(st, 1, newSelectedTab)

\* the records that add the attribute (mutation.oldValue === null)
AddingRecords(records) == SelectSeq(records, LAMBDA r : r.oldNull)

\* handleMutation: the first record that adds `selected` is handled
tabHandleMutation(st, records) ==
    IF AddingRecords(records) = <<>> THEN st
    ELSE updateSelectedTab(st, Head(AddingRecords(records)).target)

\* #handleClick on tab i
tabHandleClick(st, i) ==
    IF st.tabs[i].disabled THEN st
    ELSE IF i # st.selectedTab THEN updateSelectedTab(st, i)
    ELSE st

TabKeys == {"Enter", "Space", "ArrowLeft", "ArrowRight", "Home", "End"}

TabKeyDirection(key) ==
    CASE key = "Home"       -> "first"
      [] key = "End"        -> "last"
      [] key = "ArrowLeft"  -> "previous"
      [] key = "ArrowRight" -> "next"

\* #handleKeyDown for a key pressed while tab `item` has the focus
tabHandleKeyDown(st, item, key, activation) ==
    IF key \in {"Enter", "Space"} THEN updateSelectedTab(st, item)
    ELSE LET allItems == [i \in 1..Len(st.tabs) |-> st.tabs[i].disabled]
             nextItem == findNextFocusable(allItems, item - 1,
                                           TabKeyDirection(key), TRUE)
         IN  IF nextItem = Null THEN st
             ELSE LET next == nextItem + 1
                      st1  == [st EXCEPT !.focus = next]
                  IN  IF activation = "manual"
                      THEN [st1 EXCEPT
                               !.tabs = [[@ EXCEPT ![next].tabindex = "0"]
                                            EXCEPT ![item].tabindex = "-1"]]
                      ELSE updateSelectedTab(st1, next)

TabAssign(st) ==
    /\ tabs' = st.tabs
    /\ tabMicro' = st.micro
    /\ tabSelectedTab' = st.selectedTab
    /\ tabFocus' = st.focus

\* no microtask is pending and the observer is in place
TabQuiescent == tabObserving /\ tabMicro = <<>>

\* the microtask at the head of the queue is the group's first update:
\* firstUpdated creates the observer
GroupUpdateTask ==
    /\ tabMicro # <<>>
    /\ Head(tabMicro) = GroupUpdate
    /\ tabMicro' = Tail(tabMicro)
    /\ tabObserving' = TRUE
    /\ tabScriptOps' = 0
    /\ UNCHANGED <<tabs, tabSelectedTab, tabActivation, tabFocus, tabRecords>>
    /\ UNCHANGED exceptTab

\* the microtask at the head of the queue is the update of tab i: `selected`
\* is reflected to the attribute (a record for the observer when it changes),
\* then #handleSelectedChange (from firstUpdated or handleUpdated) writes
\* tabindex
TabUpdateTask ==
    /\ tabMicro # <<>>
    /\ Head(tabMicro) > 0
    /\ LET i       == Head(tabMicro)
           rest    == Tail(tabMicro)
           reflect == tabs[i].selected # tabs[i].attr
       IN  /\ tabs' = [tabs EXCEPT
                         ![i].attr = tabs[i].selected,
                         ![i].tabindex = IF tabs[i].selected THEN "0" ELSE "-1"]
           /\ tabRecords' = IF reflect /\ tabObserving
                            THEN Append(tabRecords,
                                        [target |-> i, oldNull |-> ~tabs[i].attr])
                            ELSE tabRecords
           /\ tabMicro' = IF reflect /\ tabObserving /\ 0 \notin Range(rest)
                          THEN Append(rest, 0) ELSE rest
    /\ tabScriptOps' = 0
    /\ UNCHANGED <<tabSelectedTab, tabActivation, tabFocus, tabObserving>>
    /\ UNCHANGED exceptTab

\* the microtask at the head of the queue is the observer's callback: it gets
\* every record queued so far
TabMutationTask ==
    /\ tabMicro # <<>>
    /\ Head(tabMicro) = 0
    /\ TabAssign(tabHandleMutation([TabSt EXCEPT !.micro = Tail(tabMicro)],
                                   tabRecords))
    /\ tabRecords' = <<>>
    /\ tabScriptOps' = 0
    /\ UNCHANGED <<tabActivation, tabObserving>>
    /\ UNCHANGED exceptTab

\* a click on tab i, in a task of its own; the click moves the focus to the
\* tab (every tab carries tabindex after its first update)
TabClick(i) ==
    /\ TabQuiescent
    /\ TabAssign(tabHandleClick([TabSt EXCEPT !.focus = i], i))
    /\ UNCHANGED <<tabActivation, tabObserving, tabRecords, tabScriptOps>>
    /\ UNCHANGED exceptTab

\* the user moves into the tab list with the Tab key: the focus goes to a tab
\* that is a tab stop
TabFocusIn(i) ==
    /\ TabQuiescent
    /\ tabFocus = 0
    /\ tabs[i].tabindex = "0"
    /\ tabFocus' = i
    /\ UNCHANGED <<tabs, tabSelectedTab, tabActivation, tabObserving,
                   tabRecords, tabMicro, tabScriptOps>>
    /\ UNCHANGED exceptTab

\* a key pressed while a tab has the focus
TabKeyDown(key) ==
    /\ TabQuiescent
    /\ tabFocus # 0
    /\ TabAssign(tabHandleKeyDown(TabSt, tabFocus, key, tabActivation))
    /\ UNCHANGED <<tabActivation, tabObserving, tabRecords, tabScriptOps>>
    /\ UNCHANGED exceptTab

\* A script adds (v = TRUE) or removes (v = FALSE) the `selected` attribute of
\* tab i: the record is queued and the observer's callback scheduled, then
\* attributeChangedCallback writes the property.  A script task makes up to
\* MaxScriptOps such writes before the microtasks run.
TabSetAttribute(i, v) ==
    /\ tabObserving
    /\ tabMicro = <<>> \/ (tabScriptOps > 0 /\ tabScriptOps < MaxScriptOps)
    /\ tabs[i].attr # v
    /\ LET st0 == [TabSt EXCEPT
                      !.tabs[i].attr = v,
                      !.micro = IF 0 \in Range(@) THEN @ ELSE Append(@, 0)]
       IN  TabAssign(SetTabSelected(st0, i, v))
    /\ tabRecords' = Append(tabRecords, [target |-> i, oldNull |-> v])
    /\ tabScriptOps' = tabScriptOps + 1
    /\ UNCHANGED <<tabActivation, tabObserving>>
    /\ UNCHANGED exceptTab

\* the markup of n tabs
TabMarkup(n) ==
    [1..n -> {NewTab(a, a, d) : a \in BOOLEAN, d \in BOOLEAN}]

\* The group and its tabs once they are defined on a parsed page: the group's
\* constructor has picked selectedTab, connectedCallback (#setupTabs) has
\* written every tab's `selected`, and the first updates are pending, the
\* group's before or after the tabs'.
TabInit ==
    /\ \E n \in 1..MaxTabs : \E markup \in TabMarkup(n) :
          /\ tabSelectedTab = defaultSelectedTab(markup)
          /\ tabs = [i \in 1..n |->
                        [markup[i] EXCEPT !.selected = (i = tabSelectedTab)]]
          /\ tabMicro \in {<<GroupUpdate>> \o SortedSeq(1..n),
                           SortedSeq(1..n) \o <<GroupUpdate>>}
    /\ tabActivation \in {"auto", "manual"}
    /\ tabFocus = 0
    /\ tabObserving = FALSE
    /\ tabRecords = <<>>
    /\ tabScriptOps = 0

TabIdle ==
    /\ tabs = <<>>
    /\ tabSelectedTab = 0
    /\ tabActivation = "auto"
    /\ tabFocus = 0
    /\ tabObserving = FALSE
    /\ tabRecords = <<>>
    /\ tabMicro = <<>>
    /\ tabScriptOps = 0

TabNext ==
    \/ GroupUpdateTask
    \/ TabUpdateTask
    \/ TabMutationTask
    \/ \E i \in TabIndices : TabClick(i)
    \/ \E i \in TabIndices : TabFocusIn(i)
    \/ \E key \in TabKeys : TabKeyDown(key)
    \/ \E i \in TabIndices : \E v \in BOOLEAN : TabSetAttribute(i, v)

-----------------------------------------------------------------------------
(* Claims about the TabGroup *)

SelectedTabs == {i \in TabIndices : tabs[i].selected}

\* C17: in a tab group with at least one enabled tab, once the microtasks of
\* a click, a key press or a script's writes of `selected` attributes have
\* run, exactly one tab is selected.
C17_Original ==
    (TabQuiescent /\ \E i \in TabIndices : ~tabs[i].disabled)
    => Cardinality(SelectedTabs) = 1

\* the tabs findNextFocusable may return
EnabledTabs == {i \in TabIndices : ~tabs[i].disabled}

\* the enabled tab a navigation key leads to from tab `from`, wrapping
TabNavTarget(key, from) ==
    LET first  == CHOOSE i \in EnabledTabs : \A j \in EnabledTabs : i <= j
        last   == CHOOSE i \in EnabledTabs : \A j \in EnabledTabs : i >= j
        after  == {i \in EnabledTabs : i > from}
        before == {i \in EnabledTabs : i < from}
    IN  CASE key = "Home" -> first
          [] key = "End" -> last
          [] key = "ArrowRight" ->
                IF after = {} THEN first
                ELSE CHOOSE i \in after : \A j \in after : i <= j
          [] key = "ArrowLeft" ->
                IF before = {} THEN last
                ELSE CHOOSE i \in before : \A j \in before : i >= j

\* C26: with activation = manual, ArrowLeft / ArrowRight / Home / End move
\* the focus, and tabindex 0, to the target enabled tab, wrapping at the
\* ends, and leave the selected tab as it is.
C26_Original ==
    [][\A key \in {"ArrowLeft", "ArrowRight", "Home", "End"} :
          (TabKeyDown(key) /\ tabActivation = "manual" /\ EnabledTabs # {}) =>
              LET target == TabNavTarget(key, tabFocus)
              IN  /\ tabFocus' = target
                  /\ tabs'[target].tabindex = "0"
                  /\ SelectedTabs' = SelectedTabs
                  /\ tabSelectedTab' = tabSelectedTab]_vars


\* a click on a tab or a key pressed in the tab list
TabUserStep ==
    \/ \E i \in TabIndices : TabClick(i)
    \/ \E key \in TabKeys : TabKeyDown(key)

\* C39: a disabled tab is not the initial default tab, and no click, no
\* Enter / Space pressed on it and no ArrowLeft / ArrowRight / Home / End
\* makes a disabled tab the selected tab.
C39_Original ==
    /\ (tabSelectedTab # 0 => ~tabs[tabSelectedTab].disabled)
    /\ [][(TabUserStep /\ tabSelectedTab' # tabSelectedTab)
             => ~tabs[tabSelectedTab'].disabled]_vars

-----------------------------------------------------------------------------
(* tree.ts : Tree, keyboard navigation and roving tabindex                  *)

TreeEl == 0          \* the tree container as the focused element

NavIndices == 1..Len(navItems)

\* TreeItem as constructed and connected: `collapsible` is initialised from
\* hasChildren when the constructor runs, tabindex is "-1"
NewNavItem(withChildren) ==
    [disabled |-> FALSE, expanded |-> FALSE, collapsible |-> withChildren,
     tabindex |-> "-1"]

\* TreeItem.hasChildren
HasChildItems(i) == \E j \in DOMAIN navParent : navParent[j] = i

\* item.offsetParent === null: the item is inside an item that is not
\* expanded, whose children are not displayed
IsHiddenItem(its, i) ==
    \E a \in AncestorsOrSelf(navParent, i) \ {i} : ~its[a].expanded

\* the handlers run on a record s of the tree's focus state
NavState ==
    [items |-> navItems, treeTabindex |-> navTreeTabindex,
     last |-> lastFocusedItem, active |-> navActive,
     focused |-> navFocused, overflow |-> navOverflow]

\* #handleFocusOut, for the element the focus goes to
treeHandleFocusOut(s, relatedTarget) ==
    IF relatedTarget = Null THEN [s EXCEPT !.treeTabindex = "0"] ELSE s

RECURSIVE focusElement(_, _, _, _)
RECURSIVE treeHandleFocusIn(_, _, _, _)

\* #focusItem
focusItem(s, item, depth, limit) ==
    IF item = 0 THEN s ELSE focusElement(s, item, depth, limit)

\* #handleFocusIn; the call of focus() is one frame deeper
treeHandleFocusIn(s, target, depth, limit) ==
    IF target = TreeEl
    THEN focusItem(s, IF s.last # 0 THEN s.last
                      ELSE IF Len(s.items) > 0 THEN 1 ELSE 0,
                   depth + 1, limit)
    ELSE IF s.items[target].disabled
    THEN focusElement(s, TreeEl, depth + 1, limit)
    ELSE LET its1 == IF s.last # 0
                     THEN [s.items EXCEPT ![s.last].tabindex = "-1"]
                     ELSE s.items
         IN  [s EXCEPT !.items = [its1 EXCEPT ![target].tabindex = "0"],
                       !.last = target,
                       !.treeTabindex = "-1"]

\* element.focus(), or the focus moved by the user: nothing happens on the
\* focused element and on an item that is not displayed; else the focusout
\* and focusin listeners of the tree run inside the call. A chain of calls
\* deeper than the call stack ends with a RangeError, the focus staying
\* where the last call found it.
focusElement(s, el, depth, limit) ==
    IF el = s.active THEN s
    ELSE IF el # Null /\ el # TreeEl /\ IsHiddenItem(s.items, el) THEN s
    ELSE IF depth > limit THEN [s EXCEPT !.overflow = TRUE]
    ELSE LET s1 == [s EXCEPT !.active = el,
                             !.focused = @ \/ (el # Null /\ el # TreeEl)]
             s2 == IF s.active = Null THEN s1
                   ELSE treeHandleFocusOut(s1, el)
         IN  IF el = Null THEN s2 ELSE treeHandleFocusIn(s2, el, depth, limit)

\* the depths at which the call stack can be exhausted
StackLimits == {MaxCallDepth, MaxCallDepth + 1}

\* #getFocusableItems, in document order
getFocusableItems(its) ==
    SelectSeq([i \in 1..Len(its) |-> i],
              LAMBDA i : ~IsHiddenItem(its, i) /\ ~its[i].disabled)

\* items.findIndex((el) => el === activeItem), 0-based
IndexIn(items, x) ==
    IF \E k \in 1..Len(items) : items[k] = x
    THEN (CHOOSE k \in 1..Len(items) : items[k] = x) - 1
    ELSE Null

TreeNavKeys == {"ArrowDown", "ArrowUp", "ArrowRight", "ArrowLeft", "Home", "End"}

\* the item found by findNextFocusable in the list of focusable items
NextOf(items, its, currentIndex, direction, wrap) ==
    LET found == findNextFocusable([k \in 1..Len(items) |-> its[items[k]].disabled],
                                   currentIndex, direction, wrap)
    IN  IF found = Null THEN 0 ELSE items[found + 1]

\* #handleKeyDown for a navigation key pressed on the focused item
treeHandleKeyDown(s, key, limit) ==
    LET items        == getFocusableItems(s.items)
        currentIndex == IndexIn(items, s.active)
        activeItem   == IF currentIndex = Null THEN 0 ELSE s.active
    IN  IF Len(items) = 0 THEN s
        ELSE IF key = "Home"
        THEN focusItem(s, NextOf(items, s.items, currentIndex, "first", TRUE), 1, limit)
        ELSE IF key = "End"
        THEN focusItem(s, NextOf(items, s.items, currentIndex, "last", TRUE), 1, limit)
        ELSE IF key = "ArrowUp"
        THEN focusItem(s, NextOf(items, s.items, currentIndex, "previous", FALSE), 1, limit)
        ELSE IF key = "ArrowDown"
        THEN focusItem(s, NextOf(items, s.items, currentIndex, "next", FALSE), 1, limit)
        ELSE IF key = "ArrowLeft"
        THEN IF activeItem = 0 THEN s
             ELSE IF s.items[activeItem].collapsible /\ s.items[activeItem].expanded
             THEN [s EXCEPT !.items[activeItem].expanded = FALSE]
             ELSE focusItem(s, navParent[activeItem], 1, limit)
        ELSE \* ArrowRight
             IF activeItem # 0 /\ s.items[activeItem].collapsible
             THEN IF ~s.items[activeItem].expanded
                  THEN [s EXCEPT !.items[activeItem].expanded = TRUE]
                  ELSE focusItem(s, NextOf(items, s.items, currentIndex, "next", FALSE),
                                 1, limit)
             ELSE s

\* the tree's focus state after a handler has run
NavAssign(s) ==
    /\ navItems' = s.items
    /\ navTreeTabindex' = s.treeTabindex
    /\ lastFocusedItem' = s.last
    /\ navActive' = s.active
    /\ navFocused' = s.focused
    /\ navOverflow' = s.overflow
    /\ navTick' = ~navTick
    /\ UNCHANGED navParent
    /\ UNCHANGED exceptNav

\* the tree container receives the focus: the user tabs into it or clicks
\* it, or a script calls tree.focus()
NavFocusTree(limit) ==
    /\ navActive # TreeEl
    /\ ~navOverflow
    /\ NavAssign(focusElement(NavState, TreeEl, 0, limit))

\* an item that is displayed receives the focus: the user clicks it, or a
\* script calls item.focus()
NavFocusItem(i, limit) ==
    /\ navActive # i
    /\ ~navOverflow
    /\ ~IsHiddenItem(navItems, i)
    /\ NavAssign(focusElement(NavState, i, 0, limit))

\* the focus leaves the tree
NavFocusOut ==
    /\ navActive # Null
    /\ ~navOverflow
    /\ NavAssign(focusElement(NavState, Null, 0, MaxCallDepth))

\* the user presses a navigation key on the focused item
NavKeyDown(key, limit) ==
    /\ navActive # Null
    /\ navActive # TreeEl
    /\ ~navOverflow
    /\ NavAssign(treeHandleKeyDown(NavState, key, limit))

\* a script writes `disabled` of item i
NavSetDisabled(i, v) ==
    /\ ~navOverflow
    /\ navItems[i].disabled # v
    /\ NavAssign([NavState EXCEPT !.items[i].disabled = v])

\* a script writes `expanded` of item i; the focused item stays displayed
NavSetExpanded(i, v) ==
    /\ ~navOverflow
    /\ navItems[i].expanded # v
    /\ LET its1 == [navItems EXCEPT ![i].expanded = v]
       IN  /\ (navActive # Null /\ navActive # TreeEl)
                  => ~IsHiddenItem(its1, navActive)
           /\ NavAssign([NavState EXCEPT !.items = its1])

\* a tree of 1..MaxNavItems items, all enabled and collapsed, nothing
\* focused; the items were constructed with their children in place
\* (upgrade of parsed markup) or before their children were added
NavInit ==
    /\ \E n \in 1..MaxNavItems : navParent \in TreeShapes(n)
    /\ \E upgraded \in BOOLEAN :
          navItems = [i \in DOMAIN navParent |->
                         NewNavItem(upgraded /\ HasChildItems(i))]
    /\ navTreeTabindex = "0"
    /\ lastFocusedItem = 0
    /\ navActive = Null
    /\ navFocused = FALSE
    /\ navOverflow = FALSE
    /\ navTick = FALSE

NavIdle ==
    /\ navParent = <<>>
    /\ navItems = <<>>
    /\ navTreeTabindex = "0"
    /\ lastFocusedItem = 0
    /\ navActive = Null
    /\ navFocused = FALSE
    /\ navOverflow = FALSE
    /\ navTick = FALSE

NavNext ==
    \/ \E limit \in StackLimits : NavFocusTree(limit)
    \/ \E i \in NavIndices : \E limit \in StackLimits : NavFocusItem(i, limit)
    \/ NavFocusOut
    \/ \E key \in TreeNavKeys : \E limit \in StackLimits : NavKeyDown(key, limit)
    \/ \E i \in NavIndices : \E v \in BOOLEAN : NavSetDisabled(i, v)
    \/ \E i \in NavIndices : \E v \in BOOLEAN : NavSetExpanded(i, v)

-----------------------------------------------------------------------------
(* Claims about the Tree's keyboard navigation *)

\* the items that are tab stops
TabStops == {i \in NavIndices : navItems[i].tabindex = "0"}

\* C22: once any item of the tree has been focused, exactly one item has
\* tabindex 0 and every other item has tabindex -1, after any sequence of
\* focus-in, focus-out and keyboard-navigation events.
C22_Original ==
    navFocused =>
        /\ Cardinality(TabStops) = 1
        /\ \A i \in NavIndices \ TabStops : navItems[i].tabindex = "-1"

\* the item the tree container hands the focus to
DelegateItem ==
    IF lastFocusedItem # 0 /\ ~navItems[lastFocusedItem].disabled
    THEN lastFocusedItem
    ELSE 1

\* C23: when the tree container receives the focus, the focus handling ends
\* with the focus on an enabled item: the last-focused item if there is one
\* and it is not disabled, else the first item of the tree; the focus does not
\* bounce without end between the container and a disabled item.
C23_Original ==
    [][\A limit \in StackLimits :
          NavFocusTree(limit) =>
              /\ ~navOverflow'
              /\ navActive' = DelegateItem
              /\ ~navItems[DelegateItem].disabled]_vars

\* the items that #getFocusableItems keeps: displayed and enabled
FocusableSet == {i \in NavIndices : ~IsHiddenItem(navItems, i) /\ ~navItems[i].disabled}

\* the next / previous focusable item in document order, a itself at the end
NextAfter(a) ==
    IF \E i \in FocusableSet : i > a
    THEN CHOOSE i \in FocusableSet : i > a /\ \A j \in FocusableSet : j > a => i <= j
    ELSE a

PrevBefore(a) ==
    IF \E i \in FocusableSet : i < a
    THEN CHOOSE i \in FocusableSet : i < a /\ \A j \in FocusableSet : j < a => i >= j
    ELSE a

\* C24: ArrowDown / ArrowUp move the focus to the next / previous enabled,
\* displayed item in document order, without wraparound: on the last
\* (ArrowDown) or first (ArrowUp) focusable item the focus stays.
C24_Original ==
    [][\A limit \in StackLimits :
          /\ NavKeyDown("ArrowDown", limit) => navActive' = NextAfter(navActive)
          /\ NavKeyDown("ArrowUp", limit) => navActive' = PrevBefore(navActive)]_vars

\* the items that are expanded
ExpandedItems == {i \in NavIndices : navItems[i].expanded}

\* C25: ArrowRight on a focused item with children expands it when it is
\* collapsed (focus unchanged) and moves the focus to the next item when it
\* is expanded; on a leaf it changes nothing. ArrowLeft on a focused item with
\* children that is expanded collapses it (focus unchanged), else moves the
\* focus to the parent item if there is one.
C25_Original ==
    [][\A limit \in StackLimits :
          /\ NavKeyDown("ArrowRight", limit) =>
                IF ~HasChildItems(navActive) THEN UNCHANGED navVars
                ELSE IF ~navItems[navActive].expanded
                THEN navItems'[navActive].expanded /\ navActive' = navActive
                ELSE /\ navActive' = NextAfter(navActive)
                     /\ ExpandedItems' = ExpandedItems
          /\ NavKeyDown("ArrowLeft", limit) =>
                IF HasChildItems(navActive) /\ navItems[navActive].expanded
                THEN ~navItems'[navActive].expanded /\ navActive' = navActive
                ELSE IF navParent[navActive] # 0
                THEN navActive' = navParent[navActive]
                ELSE navActive' = navActive]_vars

-----------------------------------------------------------------------------
(* dialog.ts : Dialog, the focus trap                                       *)

\* #handleKeyDown for the Tab key: [prevented, next], next being the index
\* of the element focus() is called on, Null for none
dialogHandleKeyDown(elements, currentIndex, shiftKey) ==
    IF Len(elements) = 0 THEN [prevented |-> TRUE, next |-> Null]
    ELSE LET nextItem == findNextFocusable(elements, currentIndex,
                             IF shiftKey THEN "previous" ELSE "next", TRUE)
         IN  [prevented |-> nextItem # Null, next |-> nextItem]

\* where the browser's own Tab handling may take the focus when the press
\* was not suppressed: to an element of the list, or out of the dialog
DefaultDestinations == (0..(Len(trapElements) - 1)) \cup {Null}

\* the user presses Tab (Shift+Tab) with the focus in the dialog; when the
\* handler does not suppress the press the browser moves the focus itself,
\* to dest (Null: out of the dialog)
TrapKeyDown(shiftKey, dest) ==
    /\ trapInside
    /\ trapPresses < MaxTabPresses
    /\ LET r == dialogHandleKeyDown(trapElements, trapFocus, shiftKey)
       IN  /\ trapPrevented' = r.prevented
           /\ trapMoved' = (r.next # Null)
           /\ IF r.next # Null
              THEN trapFocus' = r.next /\ trapInside' = TRUE
              ELSE IF r.prevented
              THEN UNCHANGED <<trapFocus, trapInside>>
              ELSE /\ trapFocus' = dest
                   /\ trapInside' = (dest # Null)
    /\ trapPresses' = trapPresses + 1
    /\ UNCHANGED trapElements
    /\ UNCHANGED exceptTrap

\* the user clicks an element of the dialog: a tabbable one (i >= 0) or
\* another one (Null)
TrapFocusElement(i) ==
    /\ trapInside
    /\ trapFocus # i
    /\ trapFocus' = i
    /\ UNCHANGED <<trapElements, trapInside, trapPrevented, trapMoved,
                   trapPresses>>
    /\ UNCHANGED exceptTrap

\* an open dialog with up to MaxFocusable tabbable elements, the focus on
\* the dialog itself
TrapInit ==
    /\ \E n \in 0..MaxFocusable : trapElements \in [1..n -> BOOLEAN]
    /\ trapFocus = Null
    /\ trapInside = TRUE
    /\ trapPrevented = FALSE
    /\ trapMoved = FALSE
    /\ trapPresses = 0

TrapIdle ==
    /\ trapElements = <<>>
    /\ trapFocus = Null
    /\ trapInside = FALSE
    /\ trapPrevented = FALSE
    /\ trapMoved = FALSE
    /\ trapPresses = 0

TrapNext ==
    \/ \E shiftKey \in BOOLEAN : \E dest \in DefaultDestinations :
          TrapKeyDown(shiftKey, dest)
    \/ \E i \in DefaultDestinations : TrapFocusElement(i)

-----------------------------------------------------------------------------
(* Claims about the Dialog's focus trap *)

\* C27: while the dialog handles Tab / Shift+Tab the focus only moves to one
\* of the dialog's own focusable descendants, from the last to the first on
\* Tab and from the first to the last on Shift+Tab; with no focusable
\* descendant every Tab press is suppressed and the focus stays.
C27_Original ==
    [][\A shiftKey \in BOOLEAN : \A dest \in DefaultDestinations :
          TrapKeyDown(shiftKey, dest) =>
              LET n == Len(trapElements)
              IN  /\ trapInside'
                  /\ n = 0 => (trapPrevented' /\ trapFocus' = trapFocus)
                  /\ n > 0 => trapFocus' \in 0..(n - 1)
                  /\ (n > 0 /\ ~shiftKey /\ trapFocus = n - 1) =>
                        trapFocus' = FirstEnabled(trapElements)
                  /\ (n > 0 /\ shiftKey /\ trapFocus = 0) =>
                        trapFocus' = LastEnabled(trapElements)]_vars

-----------------------------------------------------------------------------
(* icon.ts : Icon, the load of an SVG and the cache of loads                *)

IconElements == 1..MaxIcons
IconUrls == 1..MaxUrls

\* what a promise of resolveIcon can be: not settled yet, fulfilled with the
\* SVG element, or fulfilled with null (the fetch was rejected, the response
\* was not ok, the text was empty or held no <svg>: every path of
\* resolveIcon that does not return the element, its catch included)
LoadStates == {"pending", "svg", "null"}

NoAwait == [promise |-> 0, url |-> 0]

\* the part of setIcon() after `await iconResolver`, for the element e that
\* asked for url and got svg ("svg" or "null") from the promise; no branch
\* lets an exception out (the body is inside try / catch)
setIconResumedKeepingEntry(cache, svgs, e, url, svg) ==
    IF svg = "null"
    THEN [cache |-> cache, svgs |-> svgs, thrown |-> FALSE]
    ELSE [cache |-> cache, svgs |-> [svgs EXCEPT ![e] = url], thrown |-> FALSE]

setIconResumed(cache, svgs, e, url, svg) ==
    IF svg = "null"
    THEN [cache |-> [cache EXCEPT ![url] = 0], svgs |-> svgs, thrown |-> FALSE]
    ELSE [cache |-> cache, svgs |-> [svgs EXCEPT ![e] = url], thrown |-> FALSE]

\* setIcon() up to its await, called for an element whose icon source
\* resolves to url (a source without url returns at once): the cached promise
\* is taken, or resolveIcon(url) is called and its promise cached; awaiting a
\* settled promise queues the continuation at once
IconSetIcon(e, url) ==
    /\ iconAwait[e] = NoAwait
    /\ IF iconCache[url] = 0
       THEN /\ Len(iconPromises) < MaxLoads
            /\ iconPromises' = Append(iconPromises,
                   [url |-> url, state |-> "pending", waiters |-> <<e>>,
                    awaited |-> {e}])
            /\ iconCache' = [iconCache EXCEPT ![url] = Len(iconPromises) + 1]
            /\ iconAwait' = [iconAwait EXCEPT
                   ![e] = [promise |-> Len(iconPromises) + 1, url |-> url]]
            /\ UNCHANGED iconMicro
       ELSE LET p == iconCache[url] IN
            /\ iconAwait' = [iconAwait EXCEPT
                   ![e] = [promise |-> p, url |-> url]]
            /\ IF iconPromises[p].state = "pending"
               THEN /\ iconPromises' = [iconPromises EXCEPT
                          ![p].waiters = Append(@, e),
                          ![p].awaited = @ \cup {e}]
                    /\ UNCHANGED iconMicro
               ELSE /\ iconPromises' = [iconPromises EXCEPT
                          ![p].awaited = @ \cup {e}]
                    /\ iconMicro' = Append(iconMicro, e)
            /\ UNCHANGED iconCache
    /\ UNCHANGED <<iconSvg, iconErrors>>
    /\ UNCHANGED exceptIcon

\* resolveIcon() returns: its promise settles and the continuations of the
\* setIcon() calls awaiting it are queued in the order they awaited
IconSettle(p, outcome) ==
    /\ p \in 1..Len(iconPromises)
    /\ iconPromises[p].state = "pending"
    /\ iconPromises' = [iconPromises EXCEPT ![p].state = outcome,
                                             ![p].waiters = <<>>]
    /\ iconMicro' = iconMicro \o iconPromises[p].waiters
    /\ UNCHANGED <<iconCache, iconAwait, iconSvg, iconErrors>>
    /\ UNCHANGED exceptIcon

\* the oldest queued continuation of setIcon() runs
IconResume ==
    /\ iconMicro # <<>>
    /\ LET e == Head(iconMicro)
           a == iconAwait[e]
           r == setIconResumed(iconCache, iconSvg, e, a.url,
                               iconPromises[a.promise].state)
       IN  /\ iconCache' = r.cache
           /\ iconSvg' = r.svgs
           /\ iconErrors' = [iconErrors EXCEPT ![e] = @ \/ r.thrown]
           /\ iconAwait' = [iconAwait EXCEPT ![e] = NoAwait]
    /\ iconMicro' = Tail(iconMicro)
    /\ UNCHANGED iconPromises
    /\ UNCHANGED exceptIcon

\* the page after its Icon elements were constructed: nothing loaded yet
IconInit ==
    /\ iconCache = [u \in IconUrls |-> 0]
    /\ iconPromises = <<>>
    /\ iconAwait = [e \in IconElements |-> NoAwait]
    /\ iconSvg = [e \in IconElements |-> 0]
    /\ iconMicro = <<>>
    /\ iconErrors = [e \in IconElements |-> FALSE]

IconIdle ==
    /\ iconCache = <<>>
    /\ iconPromises = <<>>
    /\ iconAwait = <<>>
    /\ iconSvg = <<>>
    /\ iconMicro = <<>>
    /\ iconErrors = <<>>

IconNext ==
    \/ \E e \in IconElements : \E url \in IconUrls : IconSetIcon(e, url)
    \/ \E p \in 1..MaxLoads : \E outcome \in LoadStates \ {"pending"} :
          IconSettle(p, outcome)
    \/ IconResume

-----------------------------------------------------------------------------
(* Claims about the Icon *)

\* the setIcon() calls that still await promise p
IconAwaiting(p) == {e \in IconElements : iconAwait[e].promise = p}

\* C28: a load that resolves to no SVG leaves no entry for its url in the
\* cache, leaves the rendered SVG of the element as it was and lets no error
\* out of setIcon(), for every element that awaited the load; once all of
\* them have resumed the cache holds no failed load, so the next request for
\* the url calls resolveIcon again
C28_FailedLoad ==
    /\ [][\A e \in IconElements :
            (IconResume /\ Head(iconMicro) = e
               /\ iconPromises[iconAwait[e].promise].state = "null")
            => /\ iconCache'[iconAwait[e].url] = 0
               /\ iconSvg'[e] = iconSvg[e]
               /\ ~iconErrors'[e]]_vars
    /\ [](\A url \in DOMAIN iconCache :
            (iconCache[url] # 0 /\ iconPromises[iconCache[url]].state = "null")
            => IconAwaiting(iconCache[url]) # {})
    /\ [][\A e \in IconElements : \A url \in IconUrls :
            (IconSetIcon(e, url) /\ iconCache[url] = 0)
            => Len(iconPromises') = Len(iconPromises) + 1]_vars

\* a failed load that two elements awaited has been handled by both, one of
\* them rendering an SVG loaded before, and the url was then asked for again
C28_Witness ==
    \E p \in 1..Len(iconPromises) : \E q \in 1..Len(iconPromises) :
        /\ iconPromises[p].state = "null"
        /\ Cardinality(iconPromises[p].awaited) >= 2
        /\ IconAwaiting(p) = {}
        /\ q > p
        /\ iconPromises[q].url = iconPromises[p].url
        /\ \E e \in IconElements : iconSvg[e] # 0

-----------------------------------------------------------------------------
(* tree.ts : Tree, the hierarchy of the items                               *)

HierIds == 1..MaxHierItems
HierNodes == 0..MaxHierItems

NoHierarchy == [level |-> 0, posinset |-> 0, setsize |-> 0]

\* the node whose child list holds item i, Null for an item not in the
\* document
HierParentOf(ch, i) ==
    IF \E p \in HierNodes : i \in Range(ch[p])
    THEN CHOOSE p \in HierNodes : i \in Range(ch[p])
    ELSE Null

\* the items below node p
RECURSIVE HierDescendants(_, _)
HierDescendants(ch, p) ==
    Range(ch[p]) \cup UNION {HierDescendants(ch, c) : c \in Range(ch[p])}

\* #processTreeItems from the k-th item of the list on: the item's fields are
\* written, then its children (getChildren(): the items assigned to its
\* `children` slot) are processed one level deeper
RECURSIVE ProcessFrom(_, _, _, _, _)
ProcessFrom(its, ch, list, k, currentLevel) ==
    IF k > Len(list) THEN its
    ELSE LET item == list[k]
             its1 == [its EXCEPT ![item] = [level |-> currentLevel,
                                            posinset |-> k,
                                            setsize |-> Len(list)]]
             its2 == IF Len(ch[item]) > 0
                     THEN ProcessFrom(its1, ch, ch[item], 1, currentLevel + 1)
                     ELSE its1
         IN  ProcessFrom(its2, ch, list, k + 1, currentLevel)

processTreeItems(its, ch, list, currentLevel) ==
    ProcessFrom(its, ch, list, 1, currentLevel)

\* #updateHierarchy: from the tree's own child items, level 1
updateHierarchy(its, ch) == processTreeItems(its, ch, ch[0], 1)

\* the slotchange event of the tree's slot is dispatched: #handleSlotChange
\* ends with #updateHierarchy.  The `children` slot of an item has no
\* listener, and its slotchange event does not leave the item's shadow tree.
HierSlotChange ==
    /\ hierMicro # <<>>
    /\ Head(hierMicro) = 0
    /\ hierItems' = updateHierarchy(hierItems, hierChildren)
    /\ hierMicro' = Tail(hierMicro)
    /\ UNCHANGED hierChildren
    /\ UNCHANGED exceptHier

InsertAt(q, pos, x) == SubSeq(q, 1, pos - 1) \o <<x>> \o SubSeq(q, pos, Len(q))

\* a script inserts item i, which is not in the document (a new item without
\* children, or an item removed before, with the items below it), as the
\* pos-th child item of node p; a change of the tree's own children signals
\* its slot
HierInsert(i, p, pos) ==
    /\ hierMicro = <<>>
    /\ HierParentOf(hierChildren, i) = Null
    /\ p = 0 \/ p \in HierDescendants(hierChildren, 0)
    /\ pos \in 1..(Len(hierChildren[p]) + 1)
    /\ hierChildren' = [hierChildren EXCEPT ![p] = InsertAt(@, pos, i)]
    /\ hierMicro' = IF p = 0 THEN <<0>> ELSE <<>>
    /\ UNCHANGED hierItems
    /\ UNCHANGED exceptHier

\* a script removes item i from its parent
HierRemove(i) ==
    /\ hierMicro = <<>>
    /\ i \in HierDescendants(hierChildren, 0)
    /\ LET p == HierParentOf(hierChildren, i)
       IN  /\ hierChildren' = [hierChildren EXCEPT
                                  ![p] = SelectSeq(@, LAMBDA x : x # i)]
           /\ hierMicro' = IF p = 0 THEN <<0>> ELSE <<>>
    /\ UNCHANGED hierItems
    /\ UNCHANGED exceptHier

\* the page as parsed: a tree of up to MaxHierItems items, its first render
\* done and the slotchange event of its slot pending
HierInit ==
    /\ \E n \in 1..MaxHierItems : \E p \in TreeShapes(n) :
          hierChildren = [q \in HierNodes |->
                             SortedSeq({j \in 1..n : p[j] = q})]
    /\ hierItems = [i \in HierIds |-> NoHierarchy]
    /\ hierMicro = <<0>>

HierIdle ==
    /\ hierChildren = <<>>
    /\ hierItems = <<>>
    /\ hierMicro = <<>>

HierNext ==
    \/ HierSlotChange
    \/ \E i \in HierIds : \E p \in HierNodes : \E pos \in 1..MaxHierItems :
          HierInsert(i, p, pos)
    \/ \E i \in HierIds : HierRemove(i)

-----------------------------------------------------------------------------
(* Claims about the hierarchy of the Tree's items *)

\* the depth of item i: 1 for a child of the tree
RECURSIVE HierDepth(_, _)
HierDepth(ch, i) ==
    IF HierParentOf(ch, i) = 0 THEN 1
    ELSE 1 + HierDepth(ch, HierParentOf(ch, i))

\* the 1-based index of item i among its siblings
SiblingIndex(ch, i) ==
    LET q == ch[HierParentOf(ch, i)]
    IN  CHOOSE k \in 1..Len(q) : q[k] = i

\* C32: once the structural changes made so far have been processed, every
\* item of the tree has level = its depth, posinset = its 1-based index among
\* its siblings and setsize = the number of those siblings.
C32_Original ==
    hierMicro = <<>>
    => \A i \in HierDescendants(hierChildren, 0) :
          /\ hierItems[i].level = HierDepth(hierChildren, i)
          /\ hierItems[i].posinset = SiblingIndex(hierChildren, i)
          /\ hierItems[i].setsize = Len(hierChildren[HierParentOf(hierChildren, i)])

-----------------------------------------------------------------------------
(* accordion.ts : Accordion, one accordion nested in another                *)

NestNodes == 1..Len(nestTag)
NestAccordions == {n \in NestNodes : nestTag[n] = "accordion"}
NestItemIds == {n \in NestNodes : nestTag[n] = "item"}

\* el.children, in document order
NestChildren(n) == SortedSeq({c \in NestNodes : nestParent[c] = n})

\* el.closest(tag)
RECURSIVE closest(_, _)
closest(n, tag) ==
    IF n = 0 THEN 0
    ELSE IF nestTag[n] = tag THEN n
    ELSE closest(nestParent[n], tag)

\* mutant: the search goes through nested accordions and items
RECURSIVE findAccordionItemsAnywhere(_)
findAccordionItemsAnywhere(elements) ==
    IF elements = <<>> THEN <<>>
    ELSE LET el == Head(elements)
         IN  (IF nestTag[el] = "item" THEN <<el>> ELSE <<>>)
             \o findAccordionItemsAnywhere(NestChildren(el))
             \o findAccordionItemsAnywhere(Tail(elements))

\* findAccordionItems of get #accordionItems: an item is taken, an accordion
\* is skipped, any other element is searched
RECURSIVE findAccordionItems(_)
findAccordionItems(elements) ==
    IF elements = <<>> THEN <<>>
    ELSE LET el == Head(elements)
         IN  (IF nestTag[el] = "item" THEN <<el>>
              ELSE IF nestTag[el] = "accordion" THEN <<>>
              ELSE findAccordionItems(NestChildren(el)))
             \o findAccordionItems(Tail(elements))

\* get #accordionItems of accordion a: from the elements assigned to its slot
accordionItems(a) == findAccordionItems(NestChildren(a))

PositionIn(q, x) ==
    IF x \in Range(q) THEN CHOOSE k \in 1..Len(q) : q[k] = x ELSE 0

\* the records of the items ids, and the items after those records were
\* replaced by the records recs
RecordsOf(items, ids) == [k \in 1..Len(ids) |-> items[ids[k]]]
WithRecords(items, ids, recs) ==
    [n \in DOMAIN items |->
        IF n \in Range(ids) THEN recs[PositionIn(ids, n)] ELSE items[n]]

\* #handleDefaultExpandedItems of accordion a with the properties c and m
\* (an accordion without items is left to the model of the single accordion)
NestDefaultExpanded(items, a, c, m) ==
    LET ids == accordionItems(a)
    IN  WithRecords(items, ids,
            handleDefaultExpandedItems(RecordsOf(items, ids), c, m).items)

\* #onChange of accordion a for an event whose target is item `target`
NestOnChange(items, a, target) ==
    IF closest(target, "accordion") # a THEN items
    ELSE LET ids == accordionItems(a)
         IN  IF target \notin Range(ids) THEN items
             ELSE WithRecords(items, ids,
                      onChange(RecordsOf(items, ids), PositionIn(ids, target),
                               nestConfig[a].collapsible,
                               nestConfig[a].multiple, FALSE))

\* the accordions above element n, the nearest first
RECURSIVE AccordionsAbove(_)
AccordionsAbove(n) ==
    IF n = 0 THEN <<>>
    ELSE (IF nestTag[n] = "accordion" THEN <<n>> ELSE <<>>)
         \o AccordionsAbove(nestParent[n])

\* the event of item `target` bubbles: the listener of every accordion above
\* it that listens to the event's type runs #onChange
RECURSIVE NestDispatch(_, _, _)
NestDispatch(items, accs, target) ==
    IF accs = <<>> THEN items
    ELSE NestDispatch(
            IF EventType(ItemEventName) = AccordionListensTo
            THEN NestOnChange(items, Head(accs), target) ELSE items,
            Tail(accs), target)

\* #handleKeyDown of accordion a for a key pressed in the trigger of item
\* `target`, which has the focus: the item that has the focus afterwards
NestHandleKeyDown(items, a, target, key) ==
    IF closest(closest(target, "item"), "accordion") # a THEN target
    ELSE LET ids == accordionItems(a)
             at  == handleKeyDown(RecordsOf(items, ids),
                                  PositionIn(ids, target), key)
         IN  IF at = 0 THEN target ELSE ids[at]

RECURSIVE NestKeyBubble(_, _, _, _)
NestKeyBubble(items, accs, focused, key) ==
    IF accs = <<>> THEN focused
    ELSE LET next == NestHandleKeyDown(items, Head(accs), focused, key)
         IN  IF next # focused THEN next
             ELSE NestKeyBubble(items, Tail(accs), focused, key)

\* the slotchange event of accordion a's slot
NestSlotChange(a) ==
    /\ a \in NestAccordions \ nestSlotDone
    /\ accordionItems(a) # <<>>
    /\ nestItems' = NestDefaultExpanded(nestItems, a, nestConfig[a].collapsible,
                                        nestConfig[a].multiple)
    /\ nestSlotDone' = nestSlotDone \cup {a}
    /\ nestOrigin' = a
    /\ UNCHANGED <<nestParent, nestTag, nestConfig, nestFocus>>
    /\ UNCHANGED exceptNest

\* a call of a method of item i or a click on its trigger, the item's update
\* (`expanded` is reflected to `open`) and the delivery of its notification
NestItemCall(i, op) ==
    /\ nestSlotDone = NestAccordions
    /\ i \in NestItemIds
    /\ op = "click" => ~nestItems[i].disabled
    /\ LET called    == ApplyOp(op, nestItems[i])
           reflected == [called EXCEPT !.open = called.expanded,
                                       !.changed = "none"]
           items1    == [nestItems EXCEPT ![i] = reflected]
           items2    == IF called.changed = "notify"
                        THEN NestDispatch(items1, AccordionsAbove(i), i)
                        ELSE items1
       IN  nestItems' = [n \in DOMAIN items2 |->
                            [items2[n] EXCEPT !.open = items2[n].expanded,
                                              !.changed = "none"]]
    /\ nestOrigin' = i
    /\ nestFocus' = IF nestFocus = i /\ nestItems'[i].disabled THEN 0
                    ELSE nestFocus
    /\ UNCHANGED <<nestParent, nestTag, nestConfig, nestSlotDone>>
    /\ UNCHANGED exceptNest

\* the trigger of item i gets the focus
NestFocusTrigger(i) ==
    /\ nestSlotDone = NestAccordions
    /\ i \in NestItemIds
    /\ ~nestItems[i].disabled
    /\ nestFocus # i
    /\ nestFocus' = i
    /\ nestOrigin' = i
    /\ UNCHANGED <<nestParent, nestTag, nestConfig, nestItems, nestSlotDone>>
    /\ UNCHANGED exceptNest

\* a navigation key pressed in the focused trigger: the keydown event
\* bubbles through the accordions above the item
NestKeyDown(key) ==
    /\ nestSlotDone = NestAccordions
    /\ nestFocus # 0
    /\ nestFocus' = NestKeyBubble(nestItems, AccordionsAbove(nestFocus),
                                  nestFocus, key)
    /\ nestOrigin' = nestFocus
    /\ UNCHANGED <<nestParent, nestTag, nestConfig, nestItems, nestSlotDone>>
    /\ UNCHANGED exceptNest

\* collapsible or multiple of accordion a is written: handleUpdated runs
\* #handleDefaultExpandedItems
NestSetConfig(a, c, m) ==
    /\ nestSlotDone = NestAccordions
    /\ a \in NestAccordions
    /\ [collapsible |-> c, multiple |-> m] # nestConfig[a]
    /\ nestConfig' = [nestConfig EXCEPT ![a] = [collapsible |-> c,
                                                multiple |-> m]]
    /\ LET items1 == NestDefaultExpanded(nestItems, a, c, m)
       IN  nestItems' = [n \in DOMAIN items1 |->
                            [items1[n] EXCEPT !.open = items1[n].expanded,
                                              !.changed = "none"]]
    /\ nestOrigin' = a
    /\ UNCHANGED <<nestParent, nestTag, nestSlotDone, nestFocus>>
    /\ UNCHANGED exceptNest

\* the pages: an accordion nested in an item of the enclosing one, nested in
\* a wrapper element next to an item, and nested in an item that is itself
\* inside a wrapper
NestLayouts ==
    { [parent |-> <<0, 1, 2, 3, 3, 1>>,
       tag |-> <<"accordion", "item", "accordion", "item", "item", "item">>],
      [parent |-> <<0, 1, 1, 3, 4, 4>>,
       tag |-> <<"accordion", "item", "div", "accordion", "item", "item">>],
      [parent |-> <<0, 1, 2, 2, 4, 5>>,
       tag |-> <<"accordion", "div", "item", "item", "accordion", "item">>] }

NestInit ==
    /\ \E l \in NestLayouts : nestParent = l.parent /\ nestTag = l.tag
    /\ nestConfig \in [NestAccordions ->
                          [collapsible : BOOLEAN, multiple : BOOLEAN]]
    /\ nestItems \in [NestItemIds ->
                         {[NewItem(o, FALSE) EXCEPT !.initialized = TRUE] :
                             o \in BOOLEAN}]
    /\ nestSlotDone = {}
    /\ nestFocus = 0
    /\ nestOrigin = 0

NestIdle ==
    /\ nestParent = <<>>
    /\ nestTag = <<>>
    /\ nestConfig = <<>>
    /\ nestItems = <<>>
    /\ nestSlotDone = {}
    /\ nestFocus = 0
    /\ nestOrigin = 0

NestNext ==
    \/ \E a \in NestNodes : NestSlotChange(a)
    \/ \E i \in NestNodes : \E op \in ExpandOps : NestItemCall(i, op)
    \/ \E i \in NestNodes : NestFocusTrigger(i)
    \/ \E key \in NavKeys : NestKeyDown(key)
    \/ \E a \in NestNodes : \E c \in BOOLEAN : \E m \in BOOLEAN :
          NestSetConfig(a, c, m)

-----------------------------------------------------------------------------
(* Claims about nested accordions *)

\* the items of accordion a: those whose nearest accordion is a
ItemsOwnedBy(a) == {i \in NestItemIds : closest(i, "accordion") = a}

\* expanded and _collapsible of the items S stay as they are
NestKept(S) ==
    \A j \in S :
        /\ nestItems'[j].expanded = nestItems[j].expanded
        /\ nestItems'[j]._collapsible = nestItems[j]._collapsible

\* C33: a notification or a key press that comes from an item changes
\* expanded and _collapsible of no item of another accordion, and the slot
\* change or a property change of an accordion changes them for no item of
\* another accordion.
C33_OwnItemsOnly ==
    [][nestOrigin' # 0
       => NestKept(NestItemIds
                     \ ItemsOwnedBy(closest(nestOrigin', "accordion")))]_vars

\* the user has opened a second item of the nested accordion, which allows
\* one open item only, as does the enclosing accordion, whose open item is
\* still open
C33_Witness ==
    /\ nestSlotDone = NestAccordions
    /\ nestOrigin \in NestItemIds
    /\ closest(nestOrigin, "accordion") # 1
    /\ nestItems[nestOrigin].expanded
    /\ \A a \in NestAccordions : ~nestConfig[a].multiple
    /\ \E j \in ItemsOwnedBy(1) : nestItems[j].expanded
    /\ Cardinality({j \in ItemsOwnedBy(closest(nestOrigin, "accordion")) :
                       nestItems[j].expanded}) >= 2

-----------------------------------------------------------------------------
(* icon.ts : Icon, one icon whose source changes while loads are pending    *)

SrcUpdate == 0       \* the microtask of the icon's Lit update

SrcCallIds == 1..Len(srcCalls)

\* a script writes name / src / library / variant so that the icon's source
\* resolves to another url: the property is written and the update is
\* requested, once for all the writes made before it runs
SourceChange(url) ==
    /\ url # srcUrl
    /\ SrcUpdate \in Range(srcMicro) \/ Len(srcCalls) < MaxSetIcons
    /\ srcUrl' = url
    /\ srcMicro' = IF SrcUpdate \in Range(srcMicro) THEN srcMicro
                   ELSE Append(srcMicro, SrcUpdate)
    /\ UNCHANGED <<srcCache, srcPromises, srcCalls, srcSvg>>
    /\ UNCHANGED exceptSrc

\* the update runs: handleUpdated finds a changed source property and calls
\* setIcon(), which runs up to its await with the url of the source as it is
\* now: the cached promise is taken, or resolveIcon(url) is called and its
\* promise cached; awaiting a settled promise queues the continuation
SourceUpdateTask ==
    /\ srcMicro # <<>>
    /\ Head(srcMicro) = SrcUpdate
    /\ LET url  == srcUrl
           c    == Len(srcCalls) + 1
           p    == IF srcCache[url] = 0 THEN Len(srcPromises) + 1
                   ELSE srcCache[url]
           call == [url |-> url, promise |-> p, done |-> FALSE,
                    overlapped |-> \E k \in SrcCallIds : ~srcCalls[k].done]
       IN  /\ srcCalls' = Append(srcCalls, call)
           /\ srcCache' = [srcCache EXCEPT ![url] = p]
           /\ IF srcCache[url] = 0
              THEN /\ srcPromises' = Append(srcPromises,
                          [url |-> url, state |-> "pending", waiters |-> <<c>>])
                   /\ srcMicro' = Tail(srcMicro)
              ELSE IF srcPromises[p].state = "pending"
              THEN /\ srcPromises' = [srcPromises EXCEPT
                          ![p].waiters = Append(@, c)]
                   /\ srcMicro' = Tail(srcMicro)
              ELSE /\ srcMicro' = Append(Tail(srcMicro), c)
                   /\ UNCHANGED srcPromises
    /\ UNCHANGED <<srcUrl, srcSvg>>
    /\ UNCHANGED exceptSrc

\* resolveIcon() returns: its promise settles and the continuations of the
\* setIcon() calls awaiting it are queued in the order they awaited
SourceSettle(p, outcome) ==
    /\ p \in 1..Len(srcPromises)
    /\ srcPromises[p].state = "pending"
    /\ srcPromises' = [srcPromises EXCEPT ![p].state = outcome,
                                           ![p].waiters = <<>>]
    /\ srcMicro' = srcMicro \o srcPromises[p].waiters
    /\ UNCHANGED <<srcUrl, srcCache, srcCalls, srcSvg>>
    /\ UNCHANGED exceptSrc

\* the oldest queued continuation of setIcon() runs.  Its test
\* `url !== iconSource.url` compares the url with the source read by the
\* same call, before the await, so it never returns there: the continuation
\* is setIconResumed whatever the icon's source has become
SourceResume ==
    /\ srcMicro # <<>>
    /\ Head(srcMicro) # SrcUpdate
    /\ LET c == Head(srcMicro)
           r == setIconResumed(srcCache, <<srcSvg>>, 1, srcCalls[c].url,
                               srcPromises[srcCalls[c].promise].state)
       IN  /\ srcCache' = r.cache
           /\ srcSvg' = r.svgs[1]
           /\ srcCalls' = [srcCalls EXCEPT ![c].done = TRUE]
    /\ srcMicro' = Tail(srcMicro)
    /\ UNCHANGED <<srcUrl, srcPromises>>
    /\ UNCHANGED exceptSrc

\* the icon after its first render, without a source: nothing loaded yet
SrcInit ==
    /\ srcUrl = 0
    /\ srcCache = [u \in IconUrls |-> 0]
    /\ srcPromises = <<>>
    /\ srcCalls = <<>>
    /\ srcSvg = 0
    /\ srcMicro = <<>>

SrcIdle ==
    /\ srcUrl = 0
    /\ srcCache = <<>>
    /\ srcPromises = <<>>
    /\ srcCalls = <<>>
    /\ srcSvg = 0
    /\ srcMicro = <<>>

SrcNext ==
    \/ \E url \in IconUrls : SourceChange(url)
    \/ SourceUpdateTask
    \/ \E p \in 1..MaxSetIcons : \E outcome \in LoadStates \ {"pending"} :
          SourceSettle(p, outcome)
    \/ SourceResume

\* every load has settled and every call of setIcon() has run to its end
SrcSettled ==
    /\ srcMicro = <<>>
    /\ \A p \in 1..Len(srcPromises) : srcPromises[p].state # "pending"
    /\ \A c \in SrcCallIds : srcCalls[c].done

\* C40: when the source of an icon changed while an earlier load for it was
\* pending, then once every load has settled (here: every load succeeded)
\* the icon renders the SVG of its latest source, whatever the order in
\* which the loads completed.
C40_Original ==
    (/\ SrcSettled
     /\ \E c \in SrcCallIds : srcCalls[c].overlapped
     /\ \A p \in 1..Len(srcPromises) : srcPromises[p].state = "svg")
    => srcSvg = srcUrl

-----
(* Specifications *)

InitFocusOnly ==
    /\ FocusInit
    /\ EventIdle
    /\ AccIdle
    /\ TreeIdle
    /\ DlgIdle
    /\ TabIdle
    /\ NavIdle
    /\ TrapIdle
    /\ IconIdle
    /\ HierIdle
    /\ NestIdle
    /\ SrcIdle

SpecFocus == InitFocusOnly /\ [][FocusNext]_vars

InitEventsOnly ==
    /\ EventInit
    /\ FocusIdle
    /\ AccIdle
    /\ TreeIdle
    /\ DlgIdle
    /\ TabIdle
    /\ NavIdle
    /\ TrapIdle
    /\ IconIdle
    /\ HierIdle
    /\ NestIdle
    /\ SrcIdle

SpecEvents == InitEventsOnly /\ [][EventNext]_vars

InitAccordionOnly ==
    /\ AccInit
    /\ FocusIdle
    /\ EventIdle
    /\ TreeIdle
    /\ DlgIdle
    /\ TabIdle
    /\ NavIdle
    /\ TrapIdle
    /\ IconIdle
    /\ HierIdle
    /\ NestIdle
    /\ SrcIdle

SpecAccordion == InitAccordionOnly /\ [][AccNext]_vars

InitTreeOnly ==
    /\ TreeInit
    /\ FocusIdle
    /\ EventIdle
    /\ AccIdle
    /\ DlgIdle
    /\ TabIdle
    /\ NavIdle
    /\ TrapIdle
    /\ IconIdle
    /\ HierIdle
    /\ NestIdle
    /\ SrcIdle

SpecTree == InitTreeOnly /\ [][TreeNext]_vars

InitTreeScenario ==
    /\ TreeScenarioInit
    /\ FocusIdle
    /\ EventIdle
    /\ AccIdle
    /\ DlgIdle
    /\ TabIdle
    /\ NavIdle
    /\ TrapIdle
    /\ IconIdle
    /\ HierIdle
    /\ NestIdle
    /\ SrcIdle

SpecTreeScenario == InitTreeScenario /\ [][TreeNext]_vars

InitTreeSingleScenario ==
    /\ FocusIdle
    /\ EventIdle
    /\ AccIdle
    /\ TreeSingleScenarioInit
    /\ DlgIdle
    /\ TabIdle
    /\ NavIdle
    /\ TrapIdle
    /\ IconIdle
    /\ HierIdle
    /\ NestIdle
    /\ SrcIdle

SpecTreeSingleScenario == InitTreeSingleScenario /\ [][TreeNext]_vars

InitDialogOnly ==
    /\ DlgInit
    /\ FocusIdle
    /\ EventIdle
    /\ AccIdle
    /\ TreeIdle
    /\ TabIdle
    /\ NavIdle
    /\ TrapIdle
    /\ IconIdle
    /\ HierIdle
    /\ NestIdle
    /\ SrcIdle

SpecDialog == InitDialogOnly /\ [][DlgNext]_vars

InitDialogScenario ==
    /\ DlgScenarioInit
    /\ FocusIdle
    /\ EventIdle
    /\ AccIdle
    /\ TreeIdle
    /\ TabIdle
    /\ NavIdle
    /\ TrapIdle
    /\ IconIdle
    /\ HierIdle
    /\ NestIdle
    /\ SrcIdle

SpecDialogScenario == InitDialogScenario /\ [][DlgNext]_vars

InitDialogLifecycle ==
    /\ DlgLifecycleInit
    /\ FocusIdle
    /\ EventIdle
    /\ AccIdle
    /\ TreeIdle
    /\ TabIdle
    /\ NavIdle
    /\ TrapIdle
    /\ IconIdle
    /\ HierIdle
    /\ NestIdle
    /\ SrcIdle

SpecDialogLifecycle == InitDialogLifecycle /\ [][DlgLifecycleNext]_vars

InitTabsOnly ==
    /\ FocusIdle
    /\ EventIdle
    /\ AccIdle
    /\ TreeIdle
    /\ DlgIdle
    /\ TabInit
    /\ NavIdle
    /\ TrapIdle
    /\ IconIdle
    /\ HierIdle
    /\ NestIdle
    /\ SrcIdle

SpecTabs == InitTabsOnly /\ [][TabNext]_vars

InitTreeNavOnly ==
    /\ NavInit
    /\ FocusIdle
    /\ EventIdle
    /\ AccIdle
    /\ TreeIdle
    /\ DlgIdle
    /\ TabIdle
    /\ TrapIdle
    /\ IconIdle
    /\ HierIdle
    /\ NestIdle
    /\ SrcIdle

SpecTreeNav == InitTreeNavOnly /\ [][NavNext]_vars

InitFocusTrapOnly ==
    /\ TrapInit
    /\ FocusIdle
    /\ EventIdle
    /\ AccIdle
    /\ TreeIdle
    /\ DlgIdle
    /\ TabIdle
    /\ NavIdle
    /\ IconIdle
    /\ HierIdle
    /\ NestIdle
    /\ SrcIdle

SpecFocusTrap == InitFocusTrapOnly /\ [][TrapNext]_vars

InitIconOnly ==
    /\ IconInit
    /\ FocusIdle
    /\ EventIdle
    /\ AccIdle
    /\ TreeIdle
    /\ DlgIdle
    /\ TabIdle
    /\ NavIdle
    /\ TrapIdle
    /\ HierIdle
    /\ NestIdle
    /\ SrcIdle

SpecIcon == InitIconOnly /\ [][IconNext]_vars

InitHierarchyOnly ==
    /\ HierInit
    /\ FocusIdle
    /\ EventIdle
    /\ AccIdle
    /\ TreeIdle
    /\ DlgIdle
    /\ TabIdle
    /\ NavIdle
    /\ TrapIdle
    /\ IconIdle
    /\ NestIdle
    /\ SrcIdle

SpecHierarchy == InitHierarchyOnly /\ [][HierNext]_vars

InitNestedOnly ==
    /\ NestInit
    /\ FocusIdle
    /\ EventIdle
    /\ AccIdle
    /\ TreeIdle
    /\ DlgIdle
    /\ TabIdle
    /\ NavIdle
    /\ TrapIdle
    /\ IconIdle
    /\ HierIdle
    /\ SrcIdle

SpecNested == InitNestedOnly /\ [][NestNext]_vars

\* the scheduling the browser guarantees: a queued microtask runs; a
\* requested animation frame comes and running animations settle however
\* often other tasks and their microtasks come in between (strong fairness:
\* the callbacks wait for the microtask queue to drain, they are not dropped)
DlgFairness ==
    /\ WF_vars(DlgUpdateTask)
    /\ WF_vars(DlgThenTask)
    /\ WF_vars(DlgFlushTask)
    /\ \A d \in 1..MaxDialogs :
          /\ SF_vars(\E hasAnimations \in BOOLEAN :
                        DlgAnimationFrame(d, hasAnimations))
          /\ SF_vars(DlgAnimationsSettled(d))

SpecDialogLive == InitDialogScenario /\ [][DlgNext]_vars /\ DlgFairness

InitSourceOnly ==
    /\ SrcInit
    /\ FocusIdle
    /\ EventIdle
    /\ AccIdle
    /\ TreeIdle
    /\ DlgIdle
    /\ TabIdle
    /\ NavIdle
    /\ TrapIdle
    /\ IconIdle
    /\ HierIdle
    /\ NestIdle

SpecIconSource == InitSourceOnly /\ [][SrcNext]_vars

=============================================================================
